---- MODULE Spec2Model ----
(***************************************************************************)
(* State-machine model of SolSniper (src/telethon_client.py): the inbound  *)
(* message pipeline (deduplication, filter evaluation, dispatch) and the   *)
(* bot's interactive strategy builder over the strategies.json document.   *)
(*                                                                         *)
(* Encoding of Python values.  None is the empty tuple <<>> and a present  *)
(* value v is <<v>>; a dict is a function over the keys it holds, so the   *)
(* empty dict is <<>> as well (every read site modelled here treats None   *)
(* and {} alike).  Floats are modelled by integers.  A message text is a   *)
(* sequence of symbols; the symbols "X" and "Y" each stand for one run of  *)
(* 32..44 alphanumeric characters (a token address).                       *)
(***************************************************************************)
EXTENDS Integers, Sequences, FiniteSets, TLC

VARIABLES
    now,                  \* time.time(), whole seconds
    PROCESSING_PAUSED,    \* global pause flag
    _processed_cache,     \* dedup cache: key -> timestamp
    strategies,           \* the strategy document (strategies.json)
    PASS_CTX,             \* correlation map: cid -> MatchContext
    CONV_STATE,           \* per-chat conversation state
    BOT_CONTROL_CHAT_ID,  \* control destination set by /start
    bot_client,           \* TRUE iff the bot client was started (BOT_TOKEN set)
    run,                  \* what the handling of the last inbound message did
    seenAt,               \* history: key -> time of the last call that recorded it
    bot,                  \* what the handling of the last bot event did
    probe,                \* inputs and result of the last pure-function application
    prompted,             \* history: the <<chat, index>> a delete prompt was shown for
    ALLOWED_USER_IDS,     \* the allow-list read from the environment at start-up
    pending,              \* per chat: the handler suspended at an await, with its locals
    selected              \* history: the strategy a chat's editor and prompt were opened on

vars == <<now, PROCESSING_PAUSED, _processed_cache, strategies, PASS_CTX,
          CONV_STATE, BOT_CONTROL_CHAT_ID, bot_client, run, seenAt, bot, probe,
          prompted, ALLOWED_USER_IDS, pending, selected>>

----------------------------------------------------------------------------
(* Python values *)

None == <<>>
Some(v) == <<v>>
TruthyInt(o) == o # None /\ o[1] # 0     \* None and 0 are falsy
TruthyStr(o) == o # None /\ o[1] # ""    \* None and '' are falsy
Get(d, k) == IF k \in DOMAIN d THEN <<d[k]>> ELSE None
GetDict(d, k) == IF k \in DOMAIN d THEN d[k] ELSE <<>>
Put(d, k, v) == [x \in (DOMAIN d) \cup {k} |-> IF x = k THEN v ELSE d[x]]
MinOf(S) == CHOOSE x \in S : \A y \in S : x <= y

----------------------------------------------------------------------------
(* Program constants *)

DEDUP_TTL_SECONDS == 6 * 60 * 60
monitored_groups == {"SolanaNewPumpfun", "solana_trojanbot"}
TROJAN_GROUP == "@solana_trojanbot"
POST_ORDER_LIMIT_IN_GROUPS == TRUE

----------------------------------------------------------------------------
(* Bounds of the model *)

MaxSkew == 1        \* clock instants are a + b * TTL, a in 0..MaxSkew,
MaxTTLs == 1        \*                                 b in 0..MaxTTLs
MaxCid == 1         \* correlation ids are drawn from 1..MaxCid

Instants == {a + b * DEDUP_TTL_SECONDS : a \in 0..MaxSkew, b \in 0..MaxTTLs}
Cids == 1..MaxCid
Users == {1, 2}
NoSender == 0        \* stands for an event without sender identity
MaxStrategies == 3    \* a create is taken only while the document is shorter
Indexes == 1..MaxStrategies   \* the indexes a button can carry
AddrSyms == {"X", "Y"}

----------------------------------------------------------------------------
(* Field extraction and the dedup key *)

\* First run of 32..44 alphanumerics anywhere in the text (pattern 1 subsumes
\* the labelled patterns), else None.
extract_token_address(message_text) ==
    LET at == {i \in 1..Len(message_text) : message_text[i] \in AddrSyms}
    IN  IF at = {} THEN None ELSE Some(message_text[MinOf(at)])

ToLower(c) == IF c = "A" THEN "a" ELSE IF c = "B" THEN "b" ELSE c

RECURSIVE LStrip(_)
LStrip(t) == IF t # <<>> /\ Head(t) = " " THEN LStrip(Tail(t)) ELSE t

RECURSIVE RStrip(_)
RStrip(t) ==
    IF t # <<>> /\ t[Len(t)] = " " THEN RStrip(SubSeq(t, 1, Len(t) - 1)) ELSE t

RECURSIVE CollapseSpaces(_)
CollapseSpaces(t) ==
    IF Len(t) <= 1 THEN t
    ELSE IF t[1] = " " /\ t[2] = " " THEN CollapseSpaces(Tail(t))
    ELSE <<t[1]>> \o CollapseSpaces(Tail(t))

\* strip, lower, collapse whitespace runs
_normalize_text(t) ==
    LET s == RStrip(LStrip(t))
        l == [i \in 1..Len(s) |-> ToLower(s[i])]
    IN  CollapseSpaces(l)

\* sha1 is taken to be injective: the digest is the normalized text itself
_dedupe_key_for(text) ==
    LET addr == extract_token_address(text)
    IN  IF addr # None THEN <<"token", <<addr[1]>>>>
        ELSE <<"msg", _normalize_text(text)>>

\* Mutant: an entry of age exactly TTL already counts as expired.
IsDuplicateStrictTTL(cache, text, t) ==
    LET swept == [k \in {k \in DOMAIN cache : ~(t - cache[k] >= DEDUP_TTL_SECONDS)}
                    |-> cache[k]]
        key == _dedupe_key_for(text)
    IN  IF key \in DOMAIN swept /\ t - swept[key] < DEDUP_TTL_SECONDS
        THEN [dup |-> TRUE, cache |-> swept, key |-> key]
        ELSE [dup |-> FALSE, cache |-> Put(swept, key, t), key |-> key]

\* _is_duplicate at time t: sweep, derive the key, report, record if new
\* Mutant: expired entries are not evicted.
IsDuplicateNoSweep(cache, text, t) ==
    LET key == _dedupe_key_for(text)
    IN  IF key \in DOMAIN cache /\ t - cache[key] <= DEDUP_TTL_SECONDS
        THEN [dup |-> TRUE, cache |-> cache, key |-> key]
        ELSE [dup |-> FALSE, cache |-> Put(cache, key, t), key |-> key]

\* Mutant: a duplicate refreshes the timestamp of its entry.
IsDuplicateRefreshing(cache, text, t) ==
    LET swept == [k \in {k \in DOMAIN cache : ~(t - cache[k] > DEDUP_TTL_SECONDS)}
                    |-> cache[k]]
        key == _dedupe_key_for(text)
    IN  IF key \in DOMAIN swept /\ t - swept[key] <= DEDUP_TTL_SECONDS
        THEN [dup |-> TRUE, cache |-> Put(swept, key, t), key |-> key]
        ELSE [dup |-> FALSE, cache |-> Put(swept, key, t), key |-> key]

_is_duplicate(cache, text, t) ==
    LET swept == [k \in {k \in DOMAIN cache : ~(t - cache[k] > DEDUP_TTL_SECONDS)}
                    |-> cache[k]]
        key == _dedupe_key_for(text)
    IN  IF key \in DOMAIN swept /\ t - swept[key] <= DEDUP_TTL_SECONDS
        THEN [dup |-> TRUE, cache |-> swept, key |-> key]
        ELSE [dup |-> FALSE, cache |-> Put(swept, key, t), key |-> key]

----------------------------------------------------------------------------
(* Filters *)

K_AGE == "Token Age (minutes)"
K_FB == "First Buy (%)"
K_FB_LEGACY == "First Buy (count)"
K_BAL == "Balance (SOL)"
K_TX == "Transactions (count)"
K_LABEL == "Label"
K_MENTION == "Mention"
RangeKeys == {K_AGE, K_FB, K_FB_LEGACY, K_BAL, K_TX}
LabelKeys == {K_LABEL, K_MENTION}

\* isinstance(r, dict) and 'from' in r and 'to' in r
HasBothKeys(r) == "from" \in DOMAIN r /\ "to" \in DOMAIN r

\* "pass" | "fail" | "raise" (float(None) raises TypeError, caught by the
\* caller's per-strategy try/except)
token_age_passes(filters_dict, age_minutes) ==
    LET ta == GetDict(filters_dict, K_AGE)
    IN  IF HasBothKeys(ta)
        THEN IF ta["from"] = None \/ ta["to"] = None THEN "raise"
             ELSE IF ta["from"][1] <= age_minutes /\ age_minutes <= ta["to"][1]
                  THEN "pass" ELSE "fail"
        ELSE "pass"

\* Mutant: the upper bound is exclusive.
RangeFilterExclusiveHigh(rng, value) ==
    IF ~HasBothKeys(rng) THEN TRUE
    ELSE IF value = None THEN FALSE
    ELSE IF rng["from"] = None \/ rng["to"] = None THEN FALSE
    ELSE rng["from"][1] <= value[1] /\ value[1] < rng["to"][1]

\* rng: the range dict (<<>> when the filter is absent); value: None or <<v>>
range_filter_passes(rng, value) ==
    IF ~HasBothKeys(rng) THEN TRUE
    ELSE IF value = None THEN FALSE
    ELSE IF rng["from"] = None \/ rng["to"] = None THEN FALSE   \* except: False
    ELSE rng["from"][1] <= value[1] /\ value[1] <= rng["to"][1]

ANY == "Any"

\* Mutant: a missing detected label passes every expectation.
LabelFilterNullPasses(expected, detected) ==
    IF expected = None \/ expected = <<"">> \/ expected = <<ANY>> THEN TRUE
    ELSE detected = None \/ expected = detected

\* expected, detected: None or <<label>>
label_filter_passes(expected, detected) ==
    IF expected = None \/ expected = <<"">> \/ expected = <<ANY>> THEN TRUE
    ELSE expected = detected

\* Legacy key aliasing, lines 380-384
NormalizeLegacyKeys(f) ==
    LET f1 == IF K_FB \notin DOMAIN f /\ K_FB_LEGACY \in DOMAIN f
              THEN Put(f, K_FB, f[K_FB_LEGACY]) ELSE f
    IN  IF K_LABEL \notin DOMAIN f1 /\ K_MENTION \in DOMAIN f1
        THEN Put(f1, K_LABEL, f1[K_MENTION]) ELSE f1

\* The result of each of the five filters taken on its own, in the order
\* age, first buy, balance, transactions, label.
FilterResults(strat, parsed, age) ==
    LET f == NormalizeLegacyKeys(strat.filters)
    IN  << token_age_passes(f, age) = "pass",
           range_filter_passes(GetDict(f, K_FB), parsed.first_buy_pct),
           range_filter_passes(GetDict(f, K_BAL), parsed.balance_sol),
           range_filter_passes(GetDict(f, K_TX), parsed.tx_count),
           label_filter_passes(Get(f, K_LABEL), parsed.label) >>

\* Mutant: the transaction-count check is left out of the chain.
StrategyPassesNoTx(strat, parsed, age) ==
    LET f == NormalizeLegacyKeys(strat.filters)
    IN  IF token_age_passes(f, age) # "pass" THEN FALSE
        ELSE IF ~range_filter_passes(GetDict(f, K_FB), parsed.first_buy_pct) THEN FALSE
        ELSE IF ~range_filter_passes(GetDict(f, K_BAL), parsed.balance_sol) THEN FALSE
        ELSE IF ~label_filter_passes(Get(f, K_LABEL), parsed.label) THEN FALSE
        ELSE TRUE

\* The short-circuit chain of process_token_message, lines 379-409
StrategyPasses(strat, parsed, age) ==
    LET f == NormalizeLegacyKeys(strat.filters)
    IN  IF token_age_passes(f, age) # "pass" THEN FALSE
        ELSE IF ~range_filter_passes(GetDict(f, K_FB), parsed.first_buy_pct) THEN FALSE
        ELSE IF ~range_filter_passes(GetDict(f, K_BAL), parsed.balance_sol) THEN FALSE
        ELSE IF ~range_filter_passes(GetDict(f, K_TX), parsed.tx_count) THEN FALSE
        ELSE IF ~label_filter_passes(Get(f, K_LABEL), parsed.label) THEN FALSE
        ELSE TRUE

----------------------------------------------------------------------------
(* Strategy store: ownership *)

\* Mutant: ownership is not looked at.
BelongsToAnyone(strategy, owner_id) == TRUE

\* owner_id: None or <<id>>
_belongs_to(strategy, owner_id) ==
    strategy.owner_id = None \/ (owner_id # None /\ strategy.owner_id = owner_id)

Owned(items, owner_id) == SelectSeq(items, LAMBDA s : _belongs_to(s, owner_id))

\* positions in items of the entries of the owner-scoped view, in view order
RECURSIVE OwnedPositions(_, _, _)
OwnedPositions(items, owner_id, i) ==
    IF i > Len(items) THEN <<>>
    ELSE (IF _belongs_to(items[i], owner_id) THEN <<i>> ELSE <<>>)
         \o OwnedPositions(items, owner_id, i + 1)

----------------------------------------------------------------------------
(* Dispatch on a match *)

_get_control_chat_id(control) ==
    IF ALLOWED_USER_IDS # {} THEN Some(MinOf(ALLOWED_USER_IDS)) ELSE control

\* strat.get('enabled', True): an absent flag counts as enabled
IsEnabled(strat) == strat.enabled = None \/ strat.enabled = <<TRUE>>

GuiGroup(group_username) == "@" \o group_username

StratName(strat) == IF strat.name = None THEN "" ELSE strat.name[1]

\* A template is a text with replacement fields.  Pieces(template) is what
\* str.format reads in it: <<"lit", text>>, <<"field", name>>, or <<"bad", "">>
\* where the text is not a well-formed format string.
Pieces(template) ==
    CASE template = "buy {token}" ->
            << <<"lit", "buy ">>, <<"field", "token">> >>
      [] template = "{name}: {token} fb={first_buy_pct} {note}" ->
            << <<"field", "name">>, <<"lit", ": ">>, <<"field", "token">>,
               <<"lit", " fb=">>, <<"field", "first_buy_pct">>, <<"lit", " ">>,
               <<"field", "note">> >>
      [] template = "buy {token" ->
            << <<"lit", "buy ">>, <<"bad", "">> >>
      [] OTHER -> << <<"lit", template>> >>

\* the names of the contexts whose values are texts; the others are numbers
TextFields == {"token", "label", "name"}

\* str() of the value of name k in the context: None gives 'None'
Str(ctx, k) ==
    IF ctx[k] = None THEN "None"
    ELSE IF k \in TextFields THEN ctx[k][1] ELSE ToString(ctx[k][1])

\* _safe_format, lines 287-291: format_map over a dict whose missing keys give
\* ''; a key that is there is rendered by str(), and a text that is not a
\* well-formed format string raises.  The text is kept as its rendered pieces.
_safe_format(template, ctx) ==
    LET ps == Pieces(template)
        one(piece) == IF piece[1] = "lit" THEN piece[2]
                      ELSE IF piece[2] \in DOMAIN ctx THEN Str(ctx, piece[2])
                      ELSE ""
    IN  IF \E i \in 1..Len(ps) : ps[i][1] = "bad"
        THEN [raised |-> TRUE, text |-> <<>>]
        ELSE [raised |-> FALSE, text |-> [i \in 1..Len(ps) |-> one(ps[i])]]

\* the context of the action of process_token_message, lines 454-463
TokenActionCtx(strat, m) ==
    LET token_address == extract_token_address(m.text)
    IN  [k \in {"token", "age", "first_buy_pct", "balance_sol", "tx_count",
                "label", "name"} |->
            CASE k = "token" -> IF token_address = None THEN <<"">> ELSE token_address
              [] k = "age" -> <<m.age>>
              [] k = "first_buy_pct" -> m.parsed.first_buy_pct
              [] k = "balance_sol" -> m.parsed.balance_sol
              [] k = "tx_count" -> m.parsed.tx_count
              [] k = "label" -> IF m.parsed.label = None THEN <<"">> ELSE m.parsed.label
              [] k = "name" -> strat.name]

\* the context of the action of process_trojan_message, lines 1805-1812
TrojanActionCtx(strat, m) ==
    LET token_address == extract_token_address(m.text)
    IN  [k \in {"token", "amount", "expiry", "slippage", "trigger", "name"} |->
            CASE k = "token" -> IF token_address = None THEN <<"">> ELSE token_address
              [] k = "amount" -> <<strat.trojan.amount>>
              [] k = "expiry" -> <<strat.trojan.expiry_minutes>>
              [] k = "slippage" -> <<strat.trojan.slippage_pct>>
              [] k = "trigger" -> <<strat.trojan.trigger_price>>
              [] k = "name" -> strat.name]

\* the names of the replacement fields of a template that have no value in
\* the context: the name is not defined there, or its value is None
Unset(template, ctx) ==
    LET ps == Pieces(template)
    IN  {ps[i][2] : i \in {j \in 1..Len(ps) :
                              /\ ps[j][1] = "field"
                              /\ \/ ps[j][2] \notin DOMAIN ctx
                                 \/ ctx[ps[j][2]] = None}}

\* Mutant: the follow-up action of a send is keyed by no correlation id.
SendUnkeyed(kind, to, idx, strat, cid, failing, text, unset) ==
    [kind |-> kind, to |-> to, idx |-> idx, strat |-> strat, cid |-> 0,
     ok |-> <<idx, kind>> \notin failing, text |-> text, unset |-> unset]

\* one attempted send: ok is FALSE where it raised, text is the rendered
\* template of an action and unset the fields of it that had no value
Send(kind, to, idx, strat, cid, failing, text, unset) ==
    [kind |-> kind, to |-> to, idx |-> idx, strat |-> strat, cid |-> cid,
     ok |-> <<idx, kind>> \notin failing, text |-> text, unset |-> unset]

\* Mutant: once a send has failed, no later strategy of the message is dispatched.
DispatchUntilFailure(acc, idx, strat, token_address, cid, failing, actx, botc, control, src) ==
    LET notifying == botc /\ token_address # None
        ctx1 == IF notifying
                THEN Put(acc.ctx, cid, [token |-> token_address[1],
                                        strat_index |-> idx,
                                        strat_name |-> StratName(strat)])
                ELSE acc.ctx
        chat_id == IF TruthyInt(strat.owner_id) THEN strat.owner_id
                   ELSE _get_control_chat_id(control)
        notes == IF notifying /\ TruthyInt(chat_id)
                 THEN <<Send("notify", chat_id, idx, strat, cid, failing, <<>>, {})>>
                      \o (IF POST_ORDER_LIMIT_IN_GROUPS
                          THEN <<Send("mirror", <<src>>, idx, strat, cid, failing,
                                      <<>>, {})>>
                          ELSE <<>>)
                 ELSE <<>>
        target == Get(strat.action, "target")
        template == Get(strat.action, "template")
        configured == TruthyStr(target) /\ TruthyStr(template)
        msg == _safe_format(template[1], actx)
        acts == IF configured /\ ~msg.raised
                THEN <<Send("action", target, idx, strat, 0, failing, msg.text,
                           Unset(template[1], actx))>>
                ELSE <<>>
    IN  IF \E j \in 1..Len(acc.sends) : ~acc.sends[j].ok THEN acc
        ELSE
        [acc EXCEPT !.ctx = ctx1,
                    !.sends = @ \o notes \o acts,
                    !.stored = IF notifying THEN @ \cup {cid} ELSE @,
                    !.errors = IF configured /\ msg.raised THEN @ \cup {idx} ELSE @]

\* Mutant: the action is sent only after a notification that was delivered.
DispatchActionAfterNotify(acc, idx, strat, token_address, cid, failing, actx, botc, control, src) ==
    LET notifying == botc /\ token_address # None
        ctx1 == IF notifying
                THEN Put(acc.ctx, cid, [token |-> token_address[1],
                                        strat_index |-> idx,
                                        strat_name |-> StratName(strat)])
                ELSE acc.ctx
        chat_id == IF TruthyInt(strat.owner_id) THEN strat.owner_id
                   ELSE _get_control_chat_id(control)
        notes == IF notifying /\ TruthyInt(chat_id)
                 THEN <<Send("notify", chat_id, idx, strat, cid, failing, <<>>, {})>>
                      \o (IF POST_ORDER_LIMIT_IN_GROUPS
                          THEN <<Send("mirror", <<src>>, idx, strat, cid, failing,
                                      <<>>, {})>>
                          ELSE <<>>)
                 ELSE <<>>
        target == Get(strat.action, "target")
        template == Get(strat.action, "template")
        configured == TruthyStr(target) /\ TruthyStr(template)
        msg == _safe_format(template[1], actx)
        acts == IF configured /\ ~msg.raised /\ notes # <<>> /\ notes[1].ok
                THEN <<Send("action", target, idx, strat, 0, failing, msg.text,
                           Unset(template[1], actx))>>
                ELSE <<>>
    IN  [acc EXCEPT !.ctx = ctx1,
                    !.sends = @ \o notes \o acts,
                    !.stored = IF notifying THEN @ \cup {cid} ELSE @,
                    !.errors = IF configured /\ msg.raised THEN @ \cup {idx} ELSE @]

\* acc: [ctx, evals, sends, stored, errors]; effects of one matching strategy:
\* store the MatchContext, notify the owner, mirror, render and send the
\* action.  failing holds the <<strategy index, kind>> of the sends that raise;
\* each of them is caught where it is made.  A template that cannot be
\* rendered raises out of the strategy's try block: the error is logged and
\* the action is not sent.
Dispatch(acc, idx, strat, token_address, cid, failing, actx, botc, control, src) ==
    LET notifying == botc /\ token_address # None
        ctx1 == IF notifying
                THEN Put(acc.ctx, cid, [token |-> token_address[1],
                                        strat_index |-> idx,
                                        strat_name |-> StratName(strat)])
                ELSE acc.ctx
        chat_id == IF TruthyInt(strat.owner_id) THEN strat.owner_id
                   ELSE _get_control_chat_id(control)
        notes == IF notifying /\ TruthyInt(chat_id)
                 THEN <<Send("notify", chat_id, idx, strat, cid, failing, <<>>, {})>>
                      \o (IF POST_ORDER_LIMIT_IN_GROUPS
                          THEN <<Send("mirror", <<src>>, idx, strat, cid, failing,
                                      <<>>, {})>>
                          ELSE <<>>)
                 ELSE <<>>
        target == Get(strat.action, "target")
        template == Get(strat.action, "template")
        configured == TruthyStr(target) /\ TruthyStr(template)
        msg == _safe_format(template[1], actx)
        acts == IF configured /\ ~msg.raised
                THEN <<Send("action", target, idx, strat, 0, failing, msg.text,
                           Unset(template[1], actx))>>
                ELSE <<>>
    IN  [acc EXCEPT !.ctx = ctx1,
                    !.sends = @ \o notes \o acts,
                    !.stored = IF notifying THEN @ \cup {cid} ELSE @,
                    !.errors = IF configured /\ msg.raised THEN @ \cup {idx} ELSE @]

\* Mutant: the group of the strategy is not compared with the source.
TokenLoopAnyGroup(i, strats, src, m, acc, cidOf, failing, botc, control) ==
    LET RECURSIVE Go(_, _)
        Go(j, a) ==
            IF j > Len(strats) THEN a
            ELSE LET strat == strats[j]
                     ok == StrategyPasses(strat, m.parsed, m.age)
                     a1 == [a EXCEPT !.evals = Append(@,
                              [idx |-> j, strat |-> strat, verdict |-> ok,
                               parts |-> FilterResults(strat, m.parsed, m.age)])]
                 IN  IF ~IsEnabled(strat) THEN Go(j + 1, a)
                     ELSE IF ~ok THEN Go(j + 1, a1)
                     ELSE Go(j + 1, Dispatch(a1, j, strat,
                                extract_token_address(m.text), cidOf[j],
                                failing, TokenActionCtx(strat, m),
                                botc, control, src))
    IN  Go(i, acc)

\* The strategy loop of process_token_message from index i on, lines 373-467
RECURSIVE TokenLoop(_, _, _, _, _, _, _, _, _)
TokenLoop(i, strats, src, m, acc, cidOf, failing, botc, control) ==
    IF i > Len(strats) THEN acc
    ELSE LET strat == strats[i]
             ok == StrategyPasses(strat, m.parsed, m.age)
             a1 == [acc EXCEPT !.evals = Append(@,
                      [idx |-> i, strat |-> strat, verdict |-> ok,
                       parts |-> FilterResults(strat, m.parsed, m.age)])]
         IN  IF ~IsEnabled(strat)
             THEN TokenLoop(i + 1, strats, src, m, acc, cidOf, failing, botc, control)
             ELSE IF strat.group # Some(GuiGroup(src))
             THEN TokenLoop(i + 1, strats, src, m, acc, cidOf, failing, botc, control)
             ELSE IF ~ok
             THEN TokenLoop(i + 1, strats, src, m, a1, cidOf, failing, botc, control)
             ELSE TokenLoop(i + 1, strats, src, m,
                            Dispatch(a1, i, strat, extract_token_address(m.text),
                                     cidOf[i], failing, TokenActionCtx(strat, m),
                                     botc, control, src),
                            cidOf, failing, botc, control)

\* Mutant: a venue strategy is taken for complete without a trigger price.
TrojanFieldsNoTrigger == {"amount", "expiry_minutes", "slippage_pct"}

TrojanFields == {"amount", "expiry_minutes", "slippage_pct", "trigger_price"}

\* The strategy loop of process_trojan_message from index i on, lines 1749-1817
RECURSIVE TrojanLoop(_, _, _, _, _, _, _, _, _)
TrojanLoop(i, strats, src, m, acc, cidOf, failing, botc, control) ==
    IF i > Len(strats) THEN acc
    ELSE LET strat == strats[i]
             complete == \A k \in TrojanFields : k \in DOMAIN strat.trojan
             a1 == [acc EXCEPT !.evals = Append(@,
                      [idx |-> i, strat |-> strat, verdict |-> complete,
                       parts |-> <<complete>>])]
         IN  IF ~IsEnabled(strat)
             THEN TrojanLoop(i + 1, strats, src, m, acc, cidOf, failing, botc, control)
             ELSE IF strat.group # Some(GuiGroup(src))
             THEN TrojanLoop(i + 1, strats, src, m, acc, cidOf, failing, botc, control)
             ELSE IF ~complete
             THEN TrojanLoop(i + 1, strats, src, m, a1, cidOf, failing, botc, control)
             ELSE TrojanLoop(i + 1, strats, src, m,
                             Dispatch(a1, i, strat, extract_token_address(m.text),
                                      cidOf[i], failing, TrojanActionCtx(strat, m),
                                      botc, control, src),
                             cidOf, failing, botc, control)

----------------------------------------------------------------------------
(* The inbound-message handler *)

NoRun == [src |-> "", monitored |-> FALSE, key |-> <<"", <<>>>>, dup |-> FALSE,
          priorAge |-> None, paused |-> FALSE, extracted |-> FALSE,
          evals |-> <<>>, sends |-> <<>>, stored |-> {}, errors |-> {},
          token |-> None]

\* process_token_message / process_trojan_message behind the pause check
ProcessMessage(src, m, paused, strats, ctx, cidOf, failing, botc, control) ==
    LET acc0 == [ctx |-> ctx, evals |-> <<>>, sends |-> <<>>, stored |-> {},
                 errors |-> {}]
    IN  IF paused THEN [acc0 EXCEPT !.ctx = ctx] @@ [extracted |-> FALSE]
        ELSE IF src = "solana_trojanbot"
        THEN TrojanLoop(1, strats, src, m, acc0, cidOf, failing, botc, control)
             @@ [extracted |-> TRUE]
        ELSE TokenLoop(1, strats, src, m, acc0, cidOf, failing, botc, control)
             @@ [extracted |-> TRUE]

\* Mutant: the message is processed even when it was reported as duplicate.
HandlerOutcomeNoDrop(src, m, cache, t, paused, strats, ctx, cidOf, failing, botc, control) ==
    LET d == _is_duplicate(cache, m.text, t)
        r == ProcessMessage(src, m, paused, strats, ctx, cidOf, failing, botc, control)
    IN  [cache |-> d.cache, key |-> d.key, dup |-> d.dup, ctx |-> r.ctx,
         extracted |-> r.extracted, evals |-> r.evals, sends |-> r.sends,
         stored |-> r.stored, errors |-> r.errors]

\* Mutant: each source has its own entries in the cache.
HandlerOutcomePerSource(src, m, cache, t, paused, strats, ctx, cidOf, failing, botc, control) ==
    LET mine == {k \in DOMAIN cache : k[1] = src}
        own == [k \in {<<x[2], x[3]>> : x \in mine} |-> cache[<<src, k[1], k[2]>>]]
        d == _is_duplicate(own, m.text, t)
        merged == [k \in (DOMAIN cache \ mine)
                            \cup {<<src, x[1], x[2]>> : x \in DOMAIN d.cache} |->
                      IF k[1] = src THEN d.cache[<<k[2], k[3]>>] ELSE cache[k]]
        r == ProcessMessage(src, m, paused, strats, ctx, cidOf, failing, botc, control)
    IN  IF d.dup
        THEN [cache |-> merged, key |-> d.key, dup |-> TRUE, ctx |-> ctx,
              extracted |-> FALSE, evals |-> <<>>, sends |-> <<>>, stored |-> {},
              errors |-> {}]
        ELSE [cache |-> merged, key |-> d.key, dup |-> FALSE, ctx |-> r.ctx,
              extracted |-> r.extracted, evals |-> r.evals, sends |-> r.sends,
              stored |-> r.stored, errors |-> r.errors]

\* handler for a message of a monitored source, lines 1710-1721
HandlerOutcome(src, m, cache, t, paused, strats, ctx, cidOf, failing, botc, control) ==
    LET d == _is_duplicate(cache, m.text, t)
        r == ProcessMessage(src, m, paused, strats, ctx, cidOf, failing, botc, control)
    IN  IF d.dup
        THEN [cache |-> d.cache, key |-> d.key, dup |-> TRUE, ctx |-> ctx,
              extracted |-> FALSE, evals |-> <<>>, sends |-> <<>>, stored |-> {},
              errors |-> {}]
        ELSE [cache |-> d.cache, key |-> d.key, dup |-> FALSE, ctx |-> r.ctx,
              extracted |-> r.extracted, evals |-> r.evals, sends |-> r.sends,
              stored |-> r.stored, errors |-> r.errors]

BotVars == <<CONV_STATE, BOT_CONTROL_CHAT_ID, bot, prompted, ALLOWED_USER_IDS,
             pending, selected>>

\* One inbound message event of the user client; cidOf are the ids drawn by
\* _store_pass_ctx and failing the sends that raise.
handler(src, m, cidOf, failing) ==
    /\ IF src \in monitored_groups
       THEN \E o \in {HandlerOutcome(src, m, _processed_cache, now,
                                     PROCESSING_PAUSED, strategies, PASS_CTX,
                                     cidOf, failing, bot_client,
                                     BOT_CONTROL_CHAT_ID)} :
                /\ _processed_cache' = o.cache
                /\ PASS_CTX' = o.ctx
                /\ seenAt' = IF o.dup THEN seenAt ELSE Put(seenAt, o.key, now)
                /\ run' = [src |-> src, monitored |-> TRUE, key |-> o.key,
                           dup |-> o.dup,
                           priorAge |-> IF o.key \in DOMAIN seenAt
                                        THEN <<now - seenAt[o.key]>> ELSE None,
                           paused |-> PROCESSING_PAUSED,
                           extracted |-> o.extracted, evals |-> o.evals,
                           sends |-> o.sends, stored |-> o.stored,
                           errors |-> o.errors,
                           token |-> IF o.dup \/ ~o.extracted THEN None
                                     ELSE extract_token_address(m.text)]
       ELSE /\ run' = [NoRun EXCEPT !.src = src]
            /\ UNCHANGED <<_processed_cache, PASS_CTX, seenAt>>
    /\ UNCHANGED <<now, PROCESSING_PAUSED, strategies, bot_client, probe>>
    /\ UNCHANGED BotVars

\* The wall clock moves on to a later instant.
Tick ==
    /\ \E t \in Instants : t > now /\ now' = t
    /\ UNCHANGED <<PROCESSING_PAUSED, _processed_cache, strategies, PASS_CTX,
                   bot_client, run, seenAt, probe>>
    /\ UNCHANGED BotVars

\* set_paused, reached from /pause and /resume (lines 875-887, 1682-1690)
set_paused(value) ==
    /\ PROCESSING_PAUSED' = value
    /\ UNCHANGED <<now, _processed_cache, strategies, PASS_CTX, bot_client, run,
                   seenAt, probe>>
    /\ UNCHANGED BotVars

----------------------------------------------------------------------------
(* Documents and messages the pipeline is exercised with *)

L_MONEY == "Dev Has Enough Money"
L_EMPTY == "Dev Wallet Empty"
G_PUMP == "@SolanaNewPumpfun"

\* Mutant: a created strategy starts disabled.
StrategyDisabled(id, name, owner, group, enabled, filters, action, trojan) ==
    [id |-> id, name |-> name, owner_id |-> owner, group |-> group,
     enabled |-> <<FALSE>>, filters |-> filters, action |-> action,
     trojan |-> trojan]

Strategy(id, name, owner, group, enabled, filters, action, trojan) ==
    [id |-> id, name |-> name, owner_id |-> owner, group |-> group,
     enabled |-> enabled, filters |-> filters, action |-> action,
     trojan |-> trojan]

Rng(a, b) == [from |-> <<a>>, to |-> <<b>>]
NoneRng == [from |-> None, to |-> None]      \* a range saved with both bounds unset
BuyAction == [target |-> "@trader", template |-> "buy {token}"]
FullTrojan == [amount |-> 1, expiry_minutes |-> 30, slippage_pct |-> 2,
               trigger_price |-> 1]

FiveKeys == {K_AGE, K_FB, K_BAL, K_TX, K_LABEL}
CanonFilter(k) == IF k = K_LABEL THEN L_MONEY ELSE Rng(1, 3)

\* every choice of which of the five filters are present, and the shapes the
\* evaluator treats specially: legacy keys, wildcard and empty labels, ranges
\* without bounds or with unset bounds
EvalFilterSets ==
    {[k \in S |-> CanonFilter(k)] :
        S \in {T \in SUBSET FiveKeys : Cardinality(T) \in {0, 1, 4, 5}}}
    \cup {[k \in {K_FB_LEGACY, K_MENTION} |-> IF k = K_MENTION THEN L_EMPTY ELSE Rng(1, 3)],
          [k \in {K_LABEL} |-> ANY],
          [k \in {K_LABEL} |-> ""],
          [k \in {K_BAL} |-> [from |-> <<1>>]],
          [k \in {K_BAL} |-> NoneRng],
          [k \in {K_AGE} |-> NoneRng]}

PumpStrategy(f) ==
    Strategy(<<1>>, <<"S">>, <<1>>, <<G_PUMP>>, <<TRUE>>, f, BuyAction, <<>>)

\* a document whose strategies differ in enabled flag, group and owner
MixedDoc ==
    << Strategy(<<1>>, <<"off">>, <<1>>, <<G_PUMP>>, <<FALSE>>, <<>>, BuyAction, <<>>),
       Strategy(None, <<"legacy">>, None, <<G_PUMP>>, None, <<>>, BuyAction, <<>>),
       Strategy(<<2>>, <<"venue">>, <<2>>, <<TROJAN_GROUP>>, <<TRUE>>, <<>>,
                BuyAction, FullTrojan) >>

\* groups that are not exactly '@' + username, and an incomplete venue strategy
NearMissDoc ==
    << Strategy(<<1>>, <<"case">>, <<1>>, <<"@solananewpumpfun">>, <<TRUE>>, <<>>,
                BuyAction, <<>>),
       Strategy(<<2>>, <<"bare">>, <<1>>, <<"SolanaNewPumpfun">>, <<TRUE>>, <<>>,
                BuyAction, <<>>),
       Strategy(<<3>>, <<"half">>, <<2>>, <<TROJAN_GROUP>>, <<TRUE>>, <<>>,
                BuyAction, [amount |-> 1, slippage_pct |-> 2]) >>

EvalDocs == {<<PumpStrategy(f)>> : f \in EvalFilterSets} \cup {MixedDoc, NearMissDoc}

Sources == monitored_groups \cup {"SomeOtherChat"}

NoFields == [first_buy_pct |-> None, balance_sol |-> None, tx_count |-> None,
             label |-> None]

\* texts that share a key: the same address in different texts, the same text
\* up to case and whitespace, and a text holding two addresses
DedupTexts == { <<"X">>, <<"a", " ", "X">>, <<"X", " ", "Y">>, <<"Y">>,
                <<"a", " ", "b">>, <<" ", "A", " ", " ", "B">> }
DedupMsgs == {[text |-> t, age |-> 0, parsed |-> NoFields] : t \in DedupTexts}

EvalMsgs ==
    {[text |-> t, age |-> a,
      parsed |-> [first_buy_pct |-> fb, balance_sol |-> bal, tx_count |-> tx,
                  label |-> lb]] :
        t \in {<<"X">>, <<"a">>}, a \in {2, 5}, fb \in {None, <<3>>},
        bal \in {<<1>>, <<4>>}, tx \in {<<2>>, <<0>>},
        lb \in {None, <<L_MONEY>>, <<L_EMPTY>>}}

----------------------------------------------------------------------------
(* Specifications of the pipeline *)

NoBotEvent == [sender |-> 0, shown |-> <<>>, reply |-> "", sent |-> None]
NoProbe == [kind |-> "", a |-> <<>>, b |-> <<>>, out |-> None]

\* the history of a chat that is not followed: any prompt may have been shown
AnyPrompt == Users \X Indexes

\* the start-up state but for the allow-list
InitGlobals ==
    /\ now = 0
    /\ PROCESSING_PAUSED = FALSE
    /\ _processed_cache = <<>>
    /\ PASS_CTX = <<>>
    /\ CONV_STATE = [c \in Users |-> None]
    /\ BOT_CONTROL_CHAT_ID = None
    /\ run = NoRun
    /\ seenAt = <<>>
    /\ bot = NoBotEvent
    /\ prompted = AnyPrompt
    /\ pending = [c \in Users |-> None]

\* the history follows no chat
InitBase ==
    /\ InitGlobals
    /\ selected = <<>>

\* no allow-list is configured
InitCommon ==
    /\ InitBase
    /\ ALLOWED_USER_IDS = {}

HandlerStep(Msgs) ==
    \E src \in Sources, m \in Msgs, cidOf \in [1..Len(strategies) -> Cids] :
        handler(src, m, cidOf, {})

\* Deduplication: one document, texts that collide and texts that do not.
InitDedup ==
    /\ InitCommon
    /\ strategies = MixedDoc
    /\ bot_client = TRUE
    /\ probe = NoProbe

NextDedup ==
    \/ Tick
    \/ \E v \in BOOLEAN : set_paused(v)
    \/ HandlerStep(DedupMsgs)

SpecDedup == InitDedup /\ [][NextDedup]_vars

\* Deduplication across sources: the source of a message is told by the
\* instant it arrives at, so that a repeated text within the TTL comes from
\* the other source than the one it was recorded from.
SourceAt(t) ==
    IF t % DEDUP_TTL_SECONDS = 0 THEN "SolanaNewPumpfun" ELSE "solana_trojanbot"

NextCross ==
    \/ Tick
    \/ \E m \in DedupMsgs, cidOf \in [1..Len(strategies) -> Cids] :
          handler(SourceAt(now), m, cidOf, {})

SpecCross == InitDedup /\ [][NextCross]_vars

\* Evaluation: documents and parsed fields vary.
InitEval ==
    /\ InitCommon
    /\ strategies \in EvalDocs
    /\ bot_client = TRUE
    /\ probe = NoProbe

NextEval == HandlerStep(EvalMsgs)

SpecEval == InitEval /\ [][NextEval]_vars

----------------------------------------------------------------------------
(* The filter functions applied to inputs drawn from bounded sets *)

MaxVal == 3     \* range bounds are drawn from 0..MaxVal, values from 0..MaxVal+1

RangeInputs ==
    {<<>>, [from |-> <<1>>], [to |-> <<2>>], NoneRng, [from |-> None, to |-> <<2>>]}
    \cup {Rng(a, b) : a, b \in 0..MaxVal}
ValueInputs == {None} \cup {<<v>> : v \in 0..(MaxVal + 1)}
ExpectedInputs == {None, <<"">>, <<ANY>>, <<L_MONEY>>, <<L_EMPTY>>}
DetectedInputs == {None, <<L_MONEY>>, <<L_EMPTY>>}

RangeProbes ==
    {[kind |-> k, a |-> r, b |-> v, out |-> None] :
        k \in {"range", "age"}, r \in RangeInputs, v \in ValueInputs}
LabelProbes ==
    {[kind |-> "label", a |-> e, b |-> d, out |-> None] :
        e \in ExpectedInputs, d \in DetectedInputs}

PipelineVars == <<now, PROCESSING_PAUSED, _processed_cache, strategies, PASS_CTX,
                  bot_client, run, seenAt>>

apply_range_filter ==
    /\ probe.kind = "range" /\ probe.out = None
    /\ probe' = [probe EXCEPT !.out = <<range_filter_passes(probe.a, probe.b)>>]
    /\ UNCHANGED PipelineVars
    /\ UNCHANGED BotVars

apply_token_age ==
    /\ probe.kind = "age" /\ probe.out = None
    /\ probe' = [probe EXCEPT
                   !.out = <<token_age_passes(IF probe.a = <<>> THEN <<>>
                                              ELSE [k \in {K_AGE} |-> probe.a],
                                              probe.b[1])>>]
    /\ UNCHANGED PipelineVars
    /\ UNCHANGED BotVars

apply_label_filter ==
    /\ probe.kind = "label" /\ probe.out = None
    /\ probe' = [probe EXCEPT !.out = <<label_filter_passes(probe.a, probe.b)>>]
    /\ UNCHANGED PipelineVars
    /\ UNCHANGED BotVars

InitFilters ==
    /\ InitCommon
    /\ strategies = <<>>
    /\ bot_client = TRUE
    /\ \/ probe \in {p \in RangeProbes : p.kind = "range" \/ p.b # None}
       \/ probe \in LabelProbes

NextFilters == apply_range_filter \/ apply_token_age \/ apply_label_filter

SpecFilters == InitFilters /\ [][NextFilters]_vars

----------------------------------------------------------------------------
(* Claims about the pipeline *)

VENUE == "solana_trojanbot"

\* C1: a message that the duplicate check reports as duplicate is dropped
\* before anything else happens: no field extraction, no strategy
\* evaluation, no MatchContext, no notification and no action.
C1_DuplicateIsDropped ==
    run.dup => /\ ~run.extracted
               /\ run.evals = <<>>
               /\ run.sends = <<>>
               /\ run.stored = {}

\* the second of two messages carrying the same token address, arriving at
\* the same instant from a source that has a matching strategy
C1_Witness ==
    /\ run.dup /\ ~run.paused
    /\ run.key = <<"token", <<"X">>>>
    /\ run.priorAge = <<0>>
    /\ run.src = "SolanaNewPumpfun"
    /\ \E i \in 1..Len(strategies) :
          IsEnabled(strategies[i]) /\ strategies[i].group = <<G_PUMP>>

\* C2: a call reports duplicate exactly when an earlier call recorded the same
\* key at most TTL seconds ago; a call that reports not-duplicate (the first
\* one, or the first one after expiry) records the key at the time of the call.
C2_DedupRoundTrip ==
    run.monitored =>
        /\ run.dup <=> (run.priorAge # None /\ run.priorAge[1] <= DEDUP_TTL_SECONDS)
        /\ ~run.dup => /\ run.key \in DOMAIN _processed_cache
                       /\ seenAt[run.key] = _processed_cache[run.key]

\* the first call after the entry's age exceeded the TTL: not a duplicate
C2_Witness ==
    /\ run.monitored /\ ~run.dup
    /\ run.priorAge # None /\ run.priorAge[1] > DEDUP_TTL_SECONDS
    /\ run.key[1] = "msg"

\* C3 (as claimed): while the pause flag is set, an inbound message changes
\* nothing, the dedup cache included.
C3_PausedMessageHasNoEffect ==
    [][(PROCESSING_PAUSED /\ HandlerStep(DedupMsgs))
          => UNCHANGED <<_processed_cache, PASS_CTX>>]_vars

Eligible(s, src) ==
    /\ s.enabled = None \/ s.enabled = <<TRUE>>
    /\ s.group = <<"@" \o src>>

\* C4: every MatchContext, notification and action of a message comes from a
\* strategy that is enabled (or has no enabled flag) and whose group is
\* exactly '@' + the source's username.
C4_OnlyEnabledBoundStrategiesDispatch ==
    /\ \A i \in 1..Len(run.sends) : Eligible(run.sends[i].strat, run.src)
    /\ \A c \in run.stored :
          /\ PASS_CTX[c].strat_index \in 1..Len(strategies)
          /\ Eligible(strategies[PASS_CTX[c].strat_index], run.src)

\* a strategy without enabled flag dispatched while the disabled strategy of
\* the same group, earlier in the list, did not
C4_Witness ==
    /\ strategies = MixedDoc
    /\ run.src = "SolanaNewPumpfun"
    /\ run.stored # {}
    /\ \E i \in 1..Len(run.sends) :
          run.sends[i].kind = "action" /\ run.sends[i].strat.enabled = None
    /\ \A i \in 1..Len(run.sends) : run.sends[i].idx = 2

\* the five results combined by short-circuit AND in the order given
RECURSIVE ShortCircuit(_, _, _)
ShortCircuit(parts, order, i) ==
    IF i > Len(parts) THEN TRUE
    ELSE IF ~parts[order[i]] THEN FALSE
    ELSE ShortCircuit(parts, order, i + 1)

\* C5: for a non-venue source the verdict on a strategy is the conjunction of
\* the results of its five filters, whatever the order they are taken in.
C5_VerdictIsConjunction ==
    (run.monitored /\ run.src # VENUE) =>
        \A i \in 1..Len(run.evals) :
            LET e == run.evals[i]
            IN  /\ e.verdict <=> (\A k \in 1..5 : e.parts[k])
                /\ \A order \in Permutations(1..5) :
                      ShortCircuit(e.parts, order, 1) = e.verdict

\* a strategy holding all five filters failed on the transaction count alone
C5_Witness ==
    \E i \in 1..Len(run.evals) :
        /\ run.src = "SolanaNewPumpfun"
        /\ DOMAIN run.evals[i].strat.filters = FiveKeys
        /\ run.evals[i].parts = <<TRUE, TRUE, TRUE, FALSE, TRUE>>
        /\ ~run.evals[i].verdict

\* C6: range_filter_passes is true for an absent range or one lacking a bound
\* key, false for a null value against a range with both bounds, and
\* otherwise true iff from <= v <= to, both ends included; the token-age
\* filter reads its range the same way against the message age.
C6_RangeFilter ==
    LET rng == probe.a
        v == probe.b
        both == "from" \in DOMAIN rng /\ "to" \in DOMAIN rng
        numeric == both /\ rng["from"] # None /\ rng["to"] # None
    IN  /\ (probe.kind = "range" /\ probe.out # None) =>
              /\ ~both => probe.out = <<TRUE>>
              /\ (both /\ v = None) => probe.out = <<FALSE>>
              /\ (numeric /\ v # None) =>
                    probe.out = <<rng["from"][1] <= v[1] /\ v[1] <= rng["to"][1]>>
        /\ (probe.kind = "age" /\ probe.out # None) =>
              /\ ~both => probe.out = <<"pass">>
              /\ numeric =>
                    probe.out = <<IF rng["from"][1] <= v[1] /\ v[1] <= rng["to"][1]
                                  THEN "pass" ELSE "fail">>

\* a value equal to the upper bound of a proper range passes
C6_Witness ==
    /\ probe.kind = "range" /\ probe.out = <<TRUE>>
    /\ probe.a = Rng(1, 3) /\ probe.b = <<3>>

\* C7: the label filter passes for an absent, empty or wildcard expectation
\* whatever was detected, and otherwise iff the detected label equals the
\* expected one (so a null detected label fails).
C7_LabelFilter ==
    (probe.kind = "label" /\ probe.out # None) =>
        LET expected == probe.a
            detected == probe.b
        IN  IF expected \in {None, <<"">>, <<ANY>>}
            THEN probe.out = <<TRUE>>
            ELSE /\ probe.out = <<detected = expected>>
                 /\ detected = None => probe.out = <<FALSE>>

\* a specific expectation against a message with no label
C7_Witness ==
    /\ probe.kind = "label" /\ probe.out = <<FALSE>>
    /\ probe.a = <<L_MONEY>> /\ probe.b = None

----------------------------------------------------------------------------
(* The bot: owner-scoped store operations and the builder conversation.    *)
(* Every handler returns at once unless the event comes from a private     *)
(* chat and an authorized sender; in a private chat chat_id = sender_id.   *)

\* _authorized, lines 328-334; NoSender is a sender_id of None
_authorized(sender_id) ==
    /\ sender_id # NoSender
    /\ ALLOWED_USER_IDS = {} \/ sender_id \in ALLOWED_USER_IDS

HandlerState == <<now, _processed_cache, PASS_CTX, bot_client, run, seenAt, probe,
                  ALLOWED_USER_IDS>>

\* what no button or text changes, the delete button excepted, which adds to
\* the history of the prompts
PipelineFrame == <<HandlerState, PROCESSING_PAUSED, BOT_CONTROL_CHAT_ID, prompted>>

\* the frame of a handler that leaves the registered state object of the chat
\* in place (it reads it, or assigns to its keys)
PipelineState == <<PipelineFrame, pending, selected>>

\* A suspended handler holds a reference to the state object it read.  Once
\* CONV_STATE[chat] is assigned another object, or popped, the reference is to
\* an object that is no longer registered: live becomes FALSE and st is the
\* object as it was left.
Detached(u) ==
    [pending EXCEPT ![u] = IF @ = None \/ ~@[1].live THEN @
                           ELSE <<[@[1] EXCEPT !.live = FALSE,
                                               !.st = CONV_STATE[u][1]]>>]

\* the frame of a handler that assigns or pops CONV_STATE[chat]
Replaced(u) ==
    /\ pending' = Detached(u)
    /\ UNCHANGED <<PipelineFrame, selected>>

\* the history keeps the strategy shown to a chat that is followed
Select(u, field, s) ==
    [c \in DOMAIN selected |->
        IF c = u THEN [selected[c] EXCEPT ![field] = s] ELSE selected[c]]

\* the draft of a conversation, st['data']: a dict, so a function over the keys
\* it holds; DGet is d.get(k), with None for a key that is not there
EmptyDraft == <<>>

DGet(d, k) == IF k \in DOMAIN d THEN d[k] ELSE None

\* _builder_buttons(st), lines 702-737: drawing the builder of a draft that
\* is not bound to the order venue does d.setdefault('filters', {})
Shown(d) ==
    IF DGet(d, "group") = <<TROJAN_GROUP>> \/ "filters" \in DOMAIN d THEN d
    ELSE Put(d, "filters", <<>>)

ConvState(mode, step, data, edit_index) ==
    [mode |-> mode, step |-> step, data |-> data, edit_index |-> edit_index]

\* what the handling of a bot event read from the store and answered
Seen(u, shown, reply) ==
    [sender |-> u, shown |-> shown, reply |-> reply, sent |-> None]

_get_owned_strategy(items, owner_id, index) ==
    LET owned == Owned(items, owner_id)
    IN  IF 1 <= index /\ index <= Len(owned) THEN <<owned[index]>> ELSE None

\* list.remove(target): the first entry equal to target goes
RemoveFirstEqual(items, target) ==
    LET at == MinOf({i \in 1..Len(items) : items[i] = target})
    IN  SubSeq(items, 1, at - 1) \o SubSeq(items, at + 1, Len(items))

\* str.lower over the names used here
str_lower(s) ==
    CASE s = "LEGACY" -> "legacy"
      [] s = "Mine" -> "mine"
      [] OTHER -> s

DefaultName(t) == "Strategy " \o ToString(t)

\* Number of filter options counted as set, lines 570-584.  A value under a
\* range key is a dict, a value under a label key is a string.
_count_filled_filters(filters) ==
    LET counts(k) ==
            LET v == filters[k]
            IN  IF k \in RangeKeys /\ HasBothKeys(v)
                   /\ v["from"] # None /\ v["to"] # None
                THEN TRUE
                ELSE IF k \in LabelKeys THEN v # "" /\ v # ANY
                ELSE TRUE       \* else-branch: a dict is none of None, '', 'Any'
    IN  Cardinality({k \in DOMAIN filters : counts(k)})

\* A typed text: raw is the text and words its whitespace-separated words,
\* <<d>> for a word that is the digit d and <<>> for a word without digits
\* (the texts used here hold no comma, hyphen or 'to').
Digits(words) == SelectSeq(words, LAMBDA w : w # <<>>)

RECURSIVE DigitsValue(_, _)
DigitsValue(ds, acc) ==
    IF ds = <<>> THEN acc ELSE DigitsValue(Tail(ds), 10 * acc + Head(ds)[1])

\* blanks and non-numeric characters are dropped, the digits left are read
\* as one number; None when no digit is left
_parse_number(words) ==
    IF Digits(words) = <<>> THEN None ELSE <<DigitsValue(Digits(words), 0)>>

\* Mutant: the bounds are kept in the order they were typed.
ParseRangeAsTyped(words) ==
    LET ds == Digits(words)
        a == IF Len(ds) = 2 THEN ds[1] ELSE _parse_number(words)
        b == IF Len(ds) = 2 THEN ds[2] ELSE a
    IN  IF words = <<>> THEN None
        ELSE IF a = None \/ b = None THEN None
        ELSE <<[from |-> a, to |-> b]>>

\* two numbers in the text are the bounds, else the whole text is one number
\* used for both bounds; the bounds are ordered
_parse_range(words) ==
    LET ds == Digits(words)
        a == IF Len(ds) = 2 THEN ds[1] ELSE _parse_number(words)
        b == IF Len(ds) = 2 THEN ds[2] ELSE a
    IN  IF words = <<>> THEN None
        ELSE IF a = None \/ b = None THEN None
        ELSE IF a[1] <= b[1] THEN <<[from |-> a, to |-> b]>>
        ELSE <<[from |-> b, to |-> a]>>

\* A duration in minutes is held as a whole number of sixtieths of a minute.
\* text.numeric: the text is one bare number (its value is that of its only
\* word); text.units: the <<number, unit>> pairs found in it, unit one of
\* s, m, h, d.
UnitSixtieths(unit) ==
    CASE unit = "s" -> 1
      [] unit = "m" -> 60
      [] unit = "h" -> 60 * 60
      [] unit = "d" -> 1440 * 60

RECURSIVE TotalSixtieths(_)
TotalSixtieths(units) ==
    IF units = <<>> THEN 0
    ELSE Head(units)[1] * UnitSixtieths(Head(units)[2]) + TotalSixtieths(Tail(units))

\* a bare number counts as minutes; else the sum of the pairs, None when
\* there is none or the sum is 0
_parse_duration_to_minutes(text) ==
    IF text.raw = "" THEN None
    ELSE IF text.numeric THEN <<60 * text.words[1][1]>>
    ELSE IF text.units # <<>> /\ TotalSixtieths(text.units) > 0
    THEN <<TotalSixtieths(text.units)>>
    ELSE None

\* int(expiry) of a duration in minutes
IntMinutes(sixtieths) == sixtieths \div 60

----------------------------------------------------------------------------
(* Bot events on the store *)

Quiet(u, shown, reply) ==
    /\ bot' = Seen(u, shown, reply)
    /\ UNCHANGED <<strategies, CONV_STATE>>

\* 'strats' button and /strategies: the sender's view (one page holds it)
strats(u) ==
    /\ _authorized(u)
    /\ Quiet(u, Owned(strategies, <<u>>), "list")
    /\ UNCHANGED PipelineState

\* 'view:<idx>'
view(u, idx) ==
    /\ _authorized(u)
    /\ LET s == _get_owned_strategy(strategies, <<u>>, idx)
       IN  IF s = None THEN Quiet(u, <<>>, "Not found")
           ELSE Quiet(u, s, "detail")
    /\ UNCHANGED PipelineState

\* 'delete:<idx>': the confirmation prompt
delete(u, idx) ==
    /\ _authorized(u)
    /\ LET s == _get_owned_strategy(strategies, <<u>>, idx)
       IN  IF s = None
           THEN Quiet(u, <<>>, "Not found") /\ UNCHANGED <<prompted, selected>>
           ELSE /\ Quiet(u, s, "confirm?")
                /\ prompted' = prompted \cup {<<u, idx>>}
                /\ selected' = Select(u, "prompt", <<idx, s[1]>>)
    /\ UNCHANGED <<HandlerState, PROCESSING_PAUSED, BOT_CONTROL_CHAT_ID, pending>>

\* 'confirm_delete:<idx>'
confirm_delete(u, idx) ==
    /\ _authorized(u)
    /\ LET owned == Owned(strategies, <<u>>)
       IN  IF ~(1 <= idx /\ idx <= Len(owned))
           THEN Quiet(u, <<>>, "Out of range")
           ELSE /\ strategies' = RemoveFirstEqual(strategies, owned[idx])
                /\ bot' = Seen(u, <<owned[idx]>>, "Deleted")
                /\ UNCHANGED CONV_STATE
    /\ UNCHANGED PipelineState

\* Mutant: the toggle suspends between its load and its save; it saves the
\* list it loaded before the suspension.
ToggleSuspending(u, idx) ==
    /\ _authorized(u)
    /\ IF pending[u] = None
       THEN /\ pending' = [pending EXCEPT
                   ![u] = <<[kind |-> "toggle", live |-> FALSE, st |-> <<>>,
                              items |-> strategies]>>]
            /\ UNCHANGED <<strategies, CONV_STATE, bot, PipelineFrame, selected>>
       ELSE LET items == pending[u][1].items
                pos == OwnedPositions(items, <<u>>, 1)
            IN  /\ pending' = [pending EXCEPT ![u] = None]
                /\ UNCHANGED <<PipelineFrame, selected>>
                /\ IF ~(1 <= idx /\ idx <= Len(pos))
                   THEN Quiet(u, <<>>, "Out of range")
                   ELSE LET s == items[pos[idx]]
                            s1 == [s EXCEPT !.enabled = <<~IsEnabled(s)>>]
                        IN  /\ strategies' = [items EXCEPT ![pos[idx]] = s1]
                            /\ bot' = Seen(u, <<s1>>, "Saved")
                            /\ UNCHANGED CONV_STATE

\* 'toggle:<idx>'
toggle(u, idx) ==
    /\ _authorized(u)
    /\ LET pos == OwnedPositions(strategies, <<u>>, 1)
       IN  IF ~(1 <= idx /\ idx <= Len(pos))
           THEN Quiet(u, <<>>, "Out of range")
           ELSE LET s == strategies[pos[idx]]
                    s1 == [s EXCEPT !.enabled = <<~IsEnabled(s)>>]
                IN  /\ strategies' = [strategies EXCEPT ![pos[idx]] = s1]
                    /\ bot' = Seen(u, <<s1>>, "Saved")
                    /\ UNCHANGED CONV_STATE
    /\ UNCHANGED PipelineState

\* /enable and /disable of the bot; arg: [index |-> None or <<n>>, name |-> text]
_toggle_enable(u, enable, arg) ==
    /\ _authorized(u)
    /\ LET pos == OwnedPositions(strategies, <<u>>, 1)
           byName == {i \in 1..Len(pos) :
                        str_lower(StratName(strategies[pos[i]])) = str_lower(arg.name)}
           hit == IF arg.index # None
                  THEN IF 1 <= arg.index[1] /\ arg.index[1] <= Len(pos)
                       THEN <<arg.index[1]>> ELSE None
                  ELSE IF byName # {} THEN <<MinOf(byName)>> ELSE None
       IN  IF arg.index = None /\ arg.name = ""
           THEN Quiet(u, <<>>, "Provide a name or #index")
           ELSE IF hit = None THEN Quiet(u, <<>>, "Strategy not found")
           ELSE LET s1 == [strategies[pos[hit[1]]] EXCEPT !.enabled = <<enable>>]
                IN  /\ strategies' = [strategies EXCEPT ![pos[hit[1]]] = s1]
                    /\ bot' = Seen(u, <<s1>>, IF enable THEN "Enabled" ELSE "Disabled")
                    /\ UNCHANGED CONV_STATE
    /\ UNCHANGED PipelineState

\* 'edit_strategy:<idx>': open the builder on a copy of the strategy
edit_strategy(u, idx) ==
    /\ _authorized(u)
    /\ LET owned == Owned(strategies, <<u>>)
       IN  IF ~(1 <= idx /\ idx <= Len(owned))
           THEN Quiet(u, <<>>, "Out of range") /\ UNCHANGED <<pending, selected>>
           ELSE LET s == owned[idx]
                    data_copy == [name |-> s.name, group |-> s.group,
                                  filters |-> s.filters, action |-> s.action,
                                  trojan |-> s.trojan]
                IN  /\ CONV_STATE' = [CONV_STATE EXCEPT
                          ![u] = <<ConvState("edit", "builder", data_copy, <<idx>>)>>]
                    /\ bot' = Seen(u, <<s>>, "builder")
                    /\ pending' = Detached(u)
                    /\ selected' = Select(u, "edited", <<s>>)
                    /\ UNCHANGED strategies
    /\ UNCHANGED PipelineFrame

----------------------------------------------------------------------------
(* Bot events of the builder conversation *)

BuilderModes == {"create", "edit", "quick_action", "limit", "limit_ad_hoc"}

\* filter key behind each range prompt, lines 1425-1430
RangeKeyOf(key) ==
    CASE key = "token_age" -> K_AGE
      [] key = "first_buy" -> K_FB
      [] key = "balance" -> K_BAL
      [] key = "tx" -> K_TX

\* order field behind each number prompt, lines 1371-1376 (expiry is read by
\* _parse_duration_to_minutes, the others by _parse_number)
NumberKeyOf(key) ==
    CASE key = "amount" -> "amount"
      [] key = "expiry" -> "expiry_minutes"
      [] key = "slippage" -> "slippage_pct"
      [] key = "trigger" -> "trigger_price"

RangePrompts == {"token_age", "first_buy", "balance", "tx"}
NumberPrompts == {"amount", "expiry", "slippage", "trigger"}

EditStep(key) == "edit_" \o key

\* Mutant: the conversation state is one variable shared by all chats.
SetConvShared(u, st, reply) ==
    /\ CONV_STATE' = [c \in Users |-> st]
    /\ bot' = Seen(u, <<>>, reply)
    /\ UNCHANGED strategies

SetConv(u, st, reply) ==
    /\ CONV_STATE' = [CONV_STATE EXCEPT ![u] = st]
    /\ bot' = Seen(u, <<>>, reply)
    /\ UNCHANGED strategies

\* Mutant: the 'new' button keeps the state the chat already has.
NewKeepsState(u) ==
    /\ _authorized(u)
    /\ LET st == IF CONV_STATE[u] = None
                 THEN ConvState("create", "builder", EmptyDraft, None)
                 ELSE CONV_STATE[u][1]
       IN  SetConv(u, <<[st EXCEPT !.data = Shown(@), !.step = "builder"]>>,
                   "builder")
    /\ UNCHANGED PipelineState

\* 'new' button: a fresh create-mode state on the builder
new(u) ==
    /\ _authorized(u)
    /\ SetConv(u, <<ConvState("create", "builder", Shown(EmptyDraft), None)>>,
               "builder")
    /\ Replaced(u)

\* /new: a fresh create-mode state on the group choice
bot_new(u) ==
    /\ _authorized(u)
    /\ SetConv(u, <<ConvState("create", "group", EmptyDraft, None)>>, "groups")
    /\ Replaced(u)

\* 'new_group:<group>'
new_group(u, group) ==
    /\ _authorized(u)
    /\ LET st == IF CONV_STATE[u] = None
                 THEN ConvState("create", "group", EmptyDraft, None)
                 ELSE CONV_STATE[u][1]
       IN  SetConv(u, <<[st EXCEPT !.data = Shown(Put(@, "group", <<group>>)),
                                   !.step = "builder"]>>,
                   "builder")
    /\ UNCHANGED PipelineState

\* 'builder': back to the builder from any step
builder(u) ==
    /\ _authorized(u)
    /\ IF CONV_STATE[u] = None
       THEN Quiet(u, <<>>, "No active builder")
       ELSE SetConv(u, <<[CONV_STATE[u][1] EXCEPT !.step = "builder",
                                                  !.data = Shown(@)]>>,
                    "builder")
    /\ UNCHANGED PipelineState

\* 'edit:<key>': prompt for a value ('edit:name' opens a state if none is there)
edit(u, key) ==
    /\ _authorized(u)
    /\ IF CONV_STATE[u] = None
       THEN IF key = "name"
            THEN SetConv(u, <<ConvState("create", "edit_name", EmptyDraft, None)>>,
                         "prompt")
            ELSE Quiet(u, <<>>, "No active builder")
       ELSE SetConv(u, <<[CONV_STATE[u][1] EXCEPT !.step = EditStep(key)]>>,
                    "prompt")
    /\ UNCHANGED PipelineState

\* 'label:<label>'
label(u, l) ==
    /\ _authorized(u)
    /\ IF CONV_STATE[u] = None
       THEN Quiet(u, <<>>, "No active builder")
       ELSE SetConv(u, <<[CONV_STATE[u][1] EXCEPT
                            !.data = Shown(Put(@, "filters",
                                               Put(DGet(@, "filters"), K_LABEL, l)))]>>,
                    "builder")
    /\ UNCHANGED PipelineState

\* Mutant: cancel drops the conversation state of every chat.
CancelAll(u) ==
    /\ _authorized(u)
    /\ CONV_STATE' = [c \in Users |-> None]
    /\ bot' = Seen(u, <<>>, "Canceled")
    /\ UNCHANGED strategies
    /\ UNCHANGED PipelineState

\* 'cancel'
cancel(u) ==
    /\ _authorized(u)
    /\ SetConv(u, None, "Canceled")
    /\ Replaced(u)

\* the number typed at a number prompt or at a step of the limit flow
ReadNumber(key, text) ==
    IF key = "expiry" THEN _parse_duration_to_minutes(text)
    ELSE _parse_number(text.words)

SetDefault(d, k) == IF k \in DOMAIN d THEN d ELSE Put(d, k, <<>>)

\* Text typed at the prompt 'edit_<key>', lines 1346-1443: the state after it
\* and the answer.  The container the value goes to is created before the
\* text is validated (setdefault at lines 1350 and 1381).
EditField(st, key, text) ==
    LET venue == DGet(st.data, "group") = <<TROJAN_GROUP>>
        d1 == IF venue THEN SetDefault(st.data, "trojan")
              ELSE SetDefault(st.data, "filters")
        number == ReadNumber(key, text)
        rng == _parse_range(text.words)
        kept(reply) == [st |-> [st EXCEPT !.data = d1], reply |-> reply]
        done(d) == [st |-> [st EXCEPT !.data = Shown(d), !.step = "builder"],
                    reply |-> "builder"]
        ordered == LET d2 == SetDefault(d1, "trojan")
                   IN  Put(d2, "trojan", Put(d2["trojan"], NumberKeyOf(key), number[1]))
    IN  IF venue \/ key \in NumberPrompts
        THEN IF number = None
             THEN kept(IF key = "expiry" THEN "Invalid expiry" ELSE "Invalid number")
             ELSE IF key \in NumberPrompts THEN done(ordered)
             ELSE done(d1)
        ELSE IF rng = None THEN kept("Invalid format")
        ELSE done(Put(d1, "filters", Put(d1["filters"], RangeKeyOf(key), rng[1])))

LimitModes == {"limit", "limit_ad_hoc"}

\* Mutant: the slippage prompt is left out of the limit flow.
NextLimitStepNoSlippage(step) ==
    CASE step = "token" -> "amount"
      [] step = "amount" -> "expiry"
      [] step = "expiry" -> "trigger"
      [] step = "slippage" -> "trigger"

\* the step that follows a step of the limit flow
NextLimitStep(step) ==
    CASE step = "token" -> "amount"
      [] step = "amount" -> "expiry"
      [] step = "expiry" -> "slippage"
      [] step = "slippage" -> "trigger"

\* _send_limit_to_trojan, lines 305-316: the fields of the command
LimitCommand(token, amount, expiry, slippage, trigger) ==
    [token |-> token, amount |-> amount, slippage |-> slippage,
     trigger |-> trigger,
     expiry |-> IF expiry = None THEN None ELSE <<IntMinutes(expiry[1])>>]

\* a text handler assigns to the keys of the state object it holds: the
\* registered state changes only while that object is still the registered one
Mutate(u, live, st, reply) ==
    IF live THEN SetConv(u, st, reply) ELSE Quiet(u, <<>>, reply)

\* the frame of a handler that may pop CONV_STATE[chat]
MayPop(u) ==
    /\ pending' = IF CONV_STATE[u] # None /\ CONV_STATE'[u] = None
                  THEN Detached(u) ELSE pending
    /\ UNCHANGED <<PipelineFrame, selected>>

\* lines 1322-1588: the text applied to the state object st the handler read
\* at line 1314
OnText(u, st, text, live) ==
    LET d == st.data
    IN  IF st.mode \notin BuilderModes THEN Quiet(u, <<>>, "")
    ELSE IF st.step \in {"name", "edit_name"}
    THEN Mutate(u, live, <<[st EXCEPT !.step = "builder",
                                 !.data = Shown(Put(@, "name", <<text.raw>>))]>>,
                 "builder")
    ELSE IF \E k \in NumberPrompts \cup RangePrompts : st.step = EditStep(k)
    THEN LET k == CHOOSE k \in NumberPrompts \cup RangePrompts :
                      st.step = EditStep(k)
             r == EditField(st, k, text)
         IN  Mutate(u, live, <<r.st>>, r.reply)
    ELSE IF st.mode = "limit_ad_hoc" /\ st.step = "token"
    THEN Mutate(u, live, <<[st EXCEPT !.step = "amount",
                                 !.data = Put(@, "token", <<text.raw>>)]>>,
                 "prompt")
    ELSE IF st.mode \in LimitModes
            /\ st.step \in {"amount", "expiry", "slippage"}
    THEN LET val == ReadNumber(st.step, text)
         IN  IF val = None THEN Quiet(u, <<>>, "Invalid " \o st.step)
             ELSE Mutate(u, live, <<[st EXCEPT !.step = NextLimitStep(st.step),
                                          !.data = Put(@, st.step, val)]>>,
                          "prompt")
    ELSE IF st.mode \in LimitModes /\ st.step = "trigger"
    THEN LET val == ReadNumber("trigger", text)
             d1 == Put(d, "trigger", val)
             owned == Owned(strategies, <<u>>)
             found == st.mode = "limit_ad_hoc"
                      \/ \E i \in 1..Len(owned) :
                            owned[i].name = DGet(d, "strategy_name")
             cmd == LimitCommand(DGet(d1, "token"), DGet(d1, "amount"),
                                 DGet(d1, "expiry"), DGet(d1, "slippage"),
                                 DGet(d1, "trigger"))
         IN  IF val = None THEN Quiet(u, <<>>, "Invalid trigger")
             ELSE /\ CONV_STATE' = [CONV_STATE EXCEPT ![u] = None]
                  /\ bot' = IF found
                            THEN [Seen(u, <<>>, "LIMIT sent")
                                    EXCEPT !.sent = <<cmd>>]
                            ELSE Seen(u, <<>>, "Strategy not found")
                  /\ UNCHANGED strategies
    ELSE Quiet(u, <<>>, "")

\* free text typed into the chat, lines 1306-1588, with no other handler of
\* the chat running while the text is deleted
bot_conversation(u, text) ==
    /\ _authorized(u)
    /\ IF CONV_STATE[u] = None
       THEN Quiet(u, <<>>, "")
       ELSE OnText(u, CONV_STATE[u][1], text, TRUE)
    /\ MayPop(u)

\* bot_conversation up to its first await, lines 1306-1319: the handler has
\* read the state object of the chat and is suspended in event.delete()
text_received(u, text) ==
    /\ _authorized(u)
    /\ pending[u] = None
    /\ CONV_STATE[u] # None
    /\ CONV_STATE[u][1].mode \in BuilderModes
    /\ pending' = [pending EXCEPT
            ![u] = <<[kind |-> "text", live |-> TRUE, text |-> text,
                      st |-> CONV_STATE[u][1]]>>]
    /\ UNCHANGED <<strategies, CONV_STATE, bot, PipelineFrame, selected>>

\* bot_conversation from line 1320 on: the text is applied to the object read
\* before the await, which shows what was assigned to its keys meanwhile
text_resumed(u) ==
    /\ pending[u] # None
    /\ pending[u][1].kind = "text"
    /\ LET p == pending[u][1]
       IN  OnText(u, IF p.live THEN CONV_STATE[u][1] ELSE p.st, p.text, p.live)
    /\ pending' = [pending EXCEPT ![u] = None]
    /\ UNCHANGED <<PipelineFrame, selected>>

\* /start, lines 741-750: the chat becomes the control destination and its
\* conversation state is dropped
bot_start(u) ==
    /\ _authorized(u)
    /\ BOT_CONTROL_CHAT_ID' = <<u>>
    /\ SetConv(u, None, "dashboard")
    /\ pending' = Detached(u)
    /\ UNCHANGED <<HandlerState, PROCESSING_PAUSED, prompted, selected>>

\* 'pause' and 'resume', lines 1255-1268
pause(u) ==
    /\ _authorized(u)
    /\ PROCESSING_PAUSED' = TRUE
    /\ Quiet(u, Owned(strategies, <<u>>), "Paused")
    /\ UNCHANGED <<HandlerState, BOT_CONTROL_CHAT_ID, prompted, pending, selected>>

resume(u) ==
    /\ _authorized(u)
    /\ PROCESSING_PAUSED' = FALSE
    /\ Quiet(u, Owned(strategies, <<u>>), "Resumed")
    /\ UNCHANGED <<HandlerState, BOT_CONTROL_CHAT_ID, prompted, pending, selected>>

\* Mutant: a refused event drops the conversation states.
RefusedClearsState(u, reply) ==
    /\ bot' = Seen(u, <<>>, reply)
    /\ CONV_STATE' = [c \in Users |-> None]
    /\ UNCHANGED strategies
    /\ UNCHANGED PipelineState

\* the early return of a handler; reply "" is no answer at all
Refused(u, reply) ==
    /\ Quiet(u, <<>>, reply)
    /\ UNCHANGED PipelineState

\* on_button, lines 897-905: a press from a chat that is not private or from
\* a sender that is not authorized is answered 'Not allowed' and dropped
on_button(u, private, press) ==
    IF ~private \/ ~_authorized(u) THEN Refused(u, "Not allowed") ELSE press

\* the guard every command and text handler starts with (lines 743, 822,
\* 1307, ...): such an event is dropped without an answer
on_message(u, private, handling) ==
    IF ~private \/ ~_authorized(u) THEN Refused(u, "") ELSE handling

\* 'limit_menu': the limit flow with a typed token
limit_menu(u) ==
    /\ _authorized(u)
    /\ SetConv(u, <<ConvState("limit_ad_hoc", "token", EmptyDraft, None)>>, "prompt")
    /\ Replaced(u)

\* Mutant: resolving a correlation id consumes its MatchContext.
LimitConsumes(u, cid) ==
    /\ _authorized(u)
    /\ LET known == cid \in DOMAIN PASS_CTX
           token == IF known THEN <<PASS_CTX[cid].token>> ELSE None
           name == IF known THEN <<PASS_CTX[cid].strat_name>> ELSE None
           data == [k \in {"token", "strategy_name"} |->
                       IF k = "token" THEN token ELSE name]
       IN  SetConv(u, <<ConvState("limit", "amount", data, None)>>, "prompt")
    /\ PASS_CTX' = [c \in DOMAIN PASS_CTX \ {cid} |-> PASS_CTX[c]]
    /\ UNCHANGED <<now, _processed_cache, bot_client, run, seenAt, probe,
                   ALLOWED_USER_IDS, PROCESSING_PAUSED, BOT_CONTROL_CHAT_ID,
                   prompted, selected>>
    /\ pending' = Detached(u)

\* 'limit:<cid>': the limit flow on the token of a MatchContext
\* (PASS_CTX.get(cid) or {}: an unknown cid gives no token and no name)
limit(u, cid) ==
    /\ _authorized(u)
    /\ LET known == cid \in DOMAIN PASS_CTX
           token == IF known THEN <<PASS_CTX[cid].token>> ELSE None
           name == IF known THEN <<PASS_CTX[cid].strat_name>> ELSE None
           data == [k \in {"token", "strategy_name"} |->
                       IF k = "token" THEN token ELSE name]
       IN  SetConv(u, <<ConvState("limit", "amount", data, None)>>, "prompt")
    /\ Replaced(u)

\* save_strategies, lines 240-248, as the caller and the next load_strategies
\* see it.  The file is opened for writing, which empties it, and the list is
\* then written into it piece by piece: "written" is the call that succeeds,
\* "refused" the one whose open() raises (the file is left as it was) and
\* "torn" the one whose write raises after the file was emptied: the file
\* holds a part of the text, which load_strategies cannot parse and answers
\* by [] (lines 235-237).
WriteOutcomes == {"written", "refused", "torn"}
save_strategies(old, items, outcome) ==
    CASE outcome = "written" -> [ok |-> TRUE, doc |-> items]
      [] outcome = "refused" -> [ok |-> FALSE, doc |-> old]
      [] outcome = "torn" -> [ok |-> FALSE, doc |-> <<>>]

\* Mutant: the edit builds the strategy anew, as a creation does.
EditedAnew(target, d, fallback) ==
    [target EXCEPT
       !.name = IF TruthyStr(DGet(d, "name")) THEN DGet(d, "name")
                ELSE IF TruthyStr(target.name) THEN target.name ELSE fallback,
       !.group = DGet(d, "group"),
       !.filters = DGet(d, "filters"),
       !.action = DGet(d, "action"),
       !.trojan = DGet(d, "trojan"),
       !.enabled = <<TRUE>>]

\* the assignments of the edit branch to the target, lines 1216-1222
Edited(target, d, fallback) ==
    [target EXCEPT
       !.name = IF TruthyStr(DGet(d, "name")) THEN DGet(d, "name")
                ELSE IF TruthyStr(target.name) THEN target.name ELSE fallback,
       !.group = DGet(d, "group"),
       !.filters = DGet(d, "filters"),
       !.action = DGet(d, "action"),
       !.trojan = DGet(d, "trojan")]

\* load_strategies, lines 228-237: the list in the file, and [] when the file
\* cannot be read or parsed
load_strategies(doc, readable) == IF readable THEN doc ELSE <<>>

\* 'save', lines 1187-1251, with the outcome of the read and of the write of
\* the document
save_with(u, readable, outcome) ==
    /\ _authorized(u)
    /\ LET ok == save_strategies(strategies, strategies, outcome).ok IN
       IF CONV_STATE[u] = None
       THEN Quiet(u, <<>>, "Nothing to save")
       ELSE LET st == CONV_STATE[u][1]
                d == st.data
                items == load_strategies(strategies, readable)
                pos == OwnedPositions(items, <<u>>, 1)
                eidx == IF st.edit_index = None THEN 0 ELSE st.edit_index[1]
                fallback == <<DefaultName(now)>>
            IN  IF ~TruthyStr(DGet(d, "group"))
                THEN Quiet(u, <<>>, "Choose a group first")
                ELSE IF /\ DGet(d, "group") # <<TROJAN_GROUP>>
                        /\ _count_filled_filters(DGet(d, "filters")) < 3
                THEN SetConv(u, <<[st EXCEPT !.data = Shown(d)]>>,
                             "Set at least 3 filter options; builder")
                ELSE IF st.mode = "edit"
                THEN IF ~(1 <= eidx /\ eidx <= Len(pos))
                     THEN SetConv(u, None, "Save failed")
                     ELSE LET target == items[pos[eidx]]
                              t1 == Edited(target, d, fallback)
                          IN  /\ strategies' =
                                    save_strategies(strategies,
                                        [items EXCEPT ![pos[eidx]] = t1],
                                        outcome).doc
                              /\ CONV_STATE' = [CONV_STATE EXCEPT ![u] = None]
                              /\ bot' = Seen(u, <<t1>>, IF ok THEN "Updated"
                                                        ELSE "Save failed")
                ELSE LET strategy ==
                             Strategy(<<now>>,
                                      IF TruthyStr(DGet(d, "name")) THEN DGet(d, "name") ELSE fallback,
                                      <<u>>, DGet(d, "group"), <<TRUE>>, DGet(d, "filters"), DGet(d, "action"),
                                      DGet(d, "trojan"))
                     IN  /\ Len(items) < MaxStrategies
                         /\ strategies' =
                               save_strategies(strategies,
                                   Append(items, strategy), outcome).doc
                         /\ CONV_STATE' = [CONV_STATE EXCEPT ![u] = None]
                         /\ bot' = Seen(u, <<strategy>>, IF ok THEN "Saved, new"
                                                        ELSE "Save failed")
    /\ MayPop(u)

\* 'save' when the document is read as it is
save_as(u, outcome) == save_with(u, TRUE, outcome)

\* 'save' where a write that fails leaves the file as it was
save(u) == \E ok \in BOOLEAN : save_as(u, IF ok THEN "written" ELSE "refused")

----------------------------------------------------------------------------
(* Specifications of the bot *)

ThreeRanges == [k \in {K_AGE, K_FB, K_BAL} |-> Rng(1, 3)]

\* a hand-written strategy from before owners existed: no id, no owner, no
\* enabled flag, ranges whose bounds were left null
LegacyStrategy ==
    Strategy(None, <<"legacy">>, None, <<G_PUMP>>, None,
             [k \in {K_AGE, K_FB, K_BAL} |-> NoneRng], <<>>, <<>>)

OwnedDoc ==
    << Strategy(<<10>>, <<"mine">>, <<1>>, <<G_PUMP>>, <<TRUE>>, ThreeRanges,
                BuyAction, <<>>),
       LegacyStrategy,
       Strategy(<<20>>, <<"theirs">>, <<2>>, <<TROJAN_GROUP>>, <<TRUE>>, <<>>, <<>>,
                FullTrojan) >>

LabelChoices == {ANY, L_MONEY}

ToggleArgs ==
    {[index |-> <<i>>, name |-> ""] : i \in {1, MaxStrategies}}
    \cup {[index |-> None, name |-> n] : n \in {"", "LEGACY"}}

Text(raw, words, numeric, units) ==
    [raw |-> raw, words |-> words, numeric |-> numeric, units |-> units]

TextInputs ==
    { Text("3 1", << <<3>>, <<1>> >>, FALSE, <<>>),
      Text("abc", << <<>> >>, FALSE, <<>>) }

\* Store operations by two senders over a document with strategies of both
\* senders and of no owner.
InitStore ==
    /\ InitCommon
    /\ strategies = OwnedDoc
    /\ bot_client = TRUE
    /\ probe = NoProbe

StoreEvent(u) ==
    \/ strats(u)
    \/ \E i \in Indexes : view(u, i)
    \/ \E i \in Indexes : delete(u, i)
    \/ \E i \in Indexes : confirm_delete(u, i)
    \/ \E i \in Indexes : toggle(u, i)
    \/ \E i \in Indexes : edit_strategy(u, i)
    \/ \E enable \in BOOLEAN, arg \in ToggleArgs : _toggle_enable(u, enable, arg)
    \/ save(u)
    \/ cancel(u)

\* the draft of an edit session is changed by the first sender only
NextStore == label(1, L_MONEY) \/ \E u \in Users : StoreEvent(u)

SpecStore == InitStore /\ [][NextStore]_vars

\* The buttons of a strategy's card pressed by two senders while the prompts
\* and editors opened earlier are still on screen; the history follows the
\* strategy each prompt and editor was opened on.
InitStale ==
    /\ InitGlobals
    /\ ALLOWED_USER_IDS = {}
    /\ selected = [c \in Users |-> [edited |-> None, prompt |-> None]]
    /\ strategies = OwnedDoc
    /\ bot_client = TRUE
    /\ probe = NoProbe

StaleEvent(u) ==
    \/ \E i \in Indexes : delete(u, i)
    \/ \E i \in Indexes : confirm_delete(u, i)
    \/ \E i \in Indexes : edit_strategy(u, i)
    \/ save(u)
    \/ cancel(u)

NextStale == \E u \in Users : StaleEvent(u)

SpecStale == InitStale /\ [][NextStale]_vars

\* Creation and deletion by two senders, starting from an empty document.
CreateEvent(u) ==
    \/ new(u)
    \/ new_group(u, TROJAN_GROUP)
    \/ save(u)
    \/ strats(u)
    \/ \E i \in Indexes : delete(u, i)
    \/ \E i \in Indexes : confirm_delete(u, i)

InitCreate ==
    /\ InitCommon
    /\ strategies = <<>>
    /\ bot_client = TRUE
    /\ probe = NoProbe

NextCreate == Tick \/ \E u \in Users : CreateEvent(u)

SpecCreate == InitCreate /\ [][NextCreate]_vars

\* Creation by two senders where a read of the document may fail.
LoadEvent(u) ==
    \/ new(u)
    \/ new_group(u, TROJAN_GROUP)
    \/ \E readable \in BOOLEAN : save_with(u, readable, "written")
    \/ cancel(u)

NextLoad == Tick \/ \E u \in Users : LoadEvent(u)

SpecLoad == InitCreate /\ [][NextLoad]_vars

\* One sender in the builder, over a document left by an earlier version.
BuilderPrompts == {"name", "token_age", "balance"}

InitBuilder ==
    /\ InitCommon
    /\ strategies = <<LegacyStrategy>>
    /\ bot_client = TRUE
    /\ probe = NoProbe

\* one text serves as the name typed at the name prompt
NamedOnce(u, t) ==
    (CONV_STATE[u] # None /\ CONV_STATE[u][1].step = "edit_name") => t.raw = "abc"

BuilderEvent(u) ==
    \/ bot_new(u)
    \/ new(u)
    \/ new_group(u, G_PUMP)
    \/ \E k \in BuilderPrompts : edit(u, k)
    \/ \E t \in TextInputs : bot_conversation(u, t) /\ NamedOnce(u, t)
    \/ \E l \in LabelChoices : label(u, l)
    \/ builder(u)
    \/ \E i \in Indexes : edit_strategy(u, i)
    \/ save(u)
    \/ cancel(u)

NextBuilder == BuilderEvent(1)

SpecBuilder == InitBuilder /\ [][NextBuilder]_vars

\* One sender typing ranges into the builder, from an empty document: one
\* strategy is created and then edited.  The texts: bounds typed in
\* descending order, a single value, no number.
RangeTexts ==
    { Text("3 1", << <<3>>, <<1>> >>, FALSE, <<>>),
      Text("2", << <<2>> >>, TRUE, <<>>),
      Text("abc", << <<>> >>, FALSE, <<>>) }

BuilderRangeKeys == {"token_age", "first_buy", "balance"}

InitRange ==
    /\ InitCommon
    /\ strategies = <<>>
    /\ bot_client = TRUE
    /\ probe = NoProbe

NextRange ==
    \/ new(1)
    \/ new_group(1, G_PUMP)
    \/ \E k \in BuilderRangeKeys : edit(1, k)
    \/ \E t \in RangeTexts : bot_conversation(1, t)
    \/ edit_strategy(1, 1)
    \/ /\ strategies = <<>> \/ (CONV_STATE[1] # None /\ CONV_STATE[1][1].mode = "edit")
       /\ save(1)

SpecRange == InitRange /\ [][NextRange]_vars

\* The limit-order flows of two senders, next to the pipeline that stores
\* the MatchContext a flow can start from.
UnknownCid == 0      \* the cid of a button whose MatchContext is not in PASS_CTX

LimitTexts ==
    { Text("45s", << <<45>> >>, FALSE, << <<45, "s">> >>),
      Text("30m", << <<30>> >>, FALSE, << <<30, "m">> >>),
      Text("abc", << <<>> >>, FALSE, <<>>) }

LimitMsgs == {[text |-> <<"X">>, age |-> 0, parsed |-> NoFields]}

\* Events of any sender, with or without identity, from private and other
\* chats, with and without an allow-list.
Senders == Users \cup {NoSender}

GateButton(u) ==
    \/ new(u)
    \/ confirm_delete(u, 1)
    \/ pause(u)
    \/ resume(u)
    \/ cancel(u)

GateMessage(u) ==
    \/ bot_start(u)
    \/ bot_new(u)
    \/ \E t \in TextInputs : bot_conversation(u, t)

InitGate ==
    /\ InitBase
    /\ ALLOWED_USER_IDS \in {{}, {1}}
    /\ strategies = OwnedDoc
    /\ bot_client = TRUE
    /\ probe = NoProbe

NextGate ==
    \E u \in Senders, private \in BOOLEAN :
        \/ on_button(u, private, GateButton(u))
        \/ on_message(u, private, GateMessage(u))

SpecGate == InitGate /\ [][NextGate]_vars

\* One chat whose text handler is suspended while buttons of the same chat
\* are handled.
SuspendTexts ==
    { Text("30m", << <<30>> >>, FALSE, << <<30, "m">> >>),
      Text("abc", << <<>> >>, FALSE, <<>>) }

InitSuspend ==
    /\ InitCommon
    /\ strategies = <<>>
    /\ bot_client = TRUE
    /\ probe = NoProbe

NextSuspend ==
    \/ \E t \in SuspendTexts : text_received(1, t)
    \/ text_resumed(1)
    \/ new(1)
    \/ new_group(1, TROJAN_GROUP)
    \/ edit(1, "name")
    \/ limit_menu(1)
    \/ save(1)
    \/ cancel(1)

SpecSuspend == InitSuspend /\ [][NextSuspend]_vars

\* One sender moving between the sessions a chat can be in: the builder in
\* create and edit mode with its prompts, and the two limit flows.
InitSession ==
    /\ InitCommon
    /\ strategies = <<LegacyStrategy>>
    /\ bot_client = TRUE
    /\ probe = NoProbe

NextSession ==
    \/ bot_new(1)
    \/ new(1)
    \/ new_group(1, G_PUMP)
    \/ \E k \in BuilderPrompts : edit(1, k)
    \/ \E t \in TextInputs \cup LimitTexts : bot_conversation(1, t)
    \/ edit_strategy(1, 1)
    \/ limit_menu(1)
    \/ limit(1, UnknownCid)
    \/ cancel(1)

SpecSession == InitSession /\ [][NextSession]_vars

InitLimit ==
    /\ InitCommon
    /\ strategies = MixedDoc
    /\ bot_client = TRUE
    /\ probe = NoProbe

LimitEvent(u) ==
    \/ new_group(u, TROJAN_GROUP)
    \/ edit(u, "amount")
    \/ builder(u)
    \/ \E t \in LimitTexts : bot_conversation(u, t)
    \/ limit_menu(u)
    \/ \E cid \in Cids \cup {UnknownCid} : limit(u, cid)
    \/ cancel(u)

NextLimit ==
    \/ LimitEvent(1)
    \/ \E cidOf \in [1..Len(strategies) -> Cids] :
          handler("SolanaNewPumpfun", CHOOSE m \in LimitMsgs : TRUE, cidOf, {})
    \/ limit_menu(2) \/ new(2) \/ edit_strategy(2, 1) \/ cancel(2)

SpecLimit == InitLimit /\ [][NextLimit]_vars

\* The limit flow of the first sender over a document with a strategy that
\* matches and a switched-off strategy that has no name, which therefore
\* never produces a MatchContext: the strategies may be deleted meanwhile.
OrderDoc ==
    << Strategy(<<1>>, <<"S">>, <<1>>, <<G_PUMP>>, <<TRUE>>, <<>>, BuyAction, <<>>),
       Strategy(<<2>>, None, <<1>>, <<G_PUMP>>, <<FALSE>>, <<>>, BuyAction, <<>>) >>

InitOrder ==
    /\ InitCommon
    /\ strategies = OrderDoc
    /\ bot_client = TRUE
    /\ probe = NoProbe

NextOrder ==
    \/ \E cidOf \in [1..Len(strategies) -> Cids] :
          handler("SolanaNewPumpfun", CHOOSE m \in LimitMsgs : TRUE, cidOf, {})
    \/ \E cid \in Cids \cup {UnknownCid} : limit(1, cid)
    \/ \E t \in LimitTexts : bot_conversation(1, t)
    \/ \E i \in Indexes : confirm_delete(1, i)
    \/ cancel(1)

SpecOrder == InitOrder /\ [][NextOrder]_vars

\* ---- dispatch of matches: notification, mirror and action ----

RichAction == [target |-> "@trader",
               template |-> "{name}: {token} fb={first_buy_pct} {note}"]
BadAction == [target |-> "@trader", template |-> "buy {token"]
NoAction == <<>>
ControlChat == 9

\* two strategies of the pump group that pass every message (no filter is
\* set), the first with or without an owner, and one complete venue strategy
DispatchDocs ==
    {<< Strategy(<<1>>, <<"first">>, owner, <<G_PUMP>>, <<TRUE>>, <<>>, action, <<>>),
        Strategy(<<2>>, <<"second">>, <<2>>, <<G_PUMP>>, <<TRUE>>, <<>>,
                 BuyAction, <<>>),
        Strategy(<<3>>, <<"venue">>, <<2>>, <<TROJAN_GROUP>>, <<TRUE>>, <<>>,
                 BuyAction, FullTrojan) >> :
        owner \in {None, <<1>>},
        action \in {BuyAction, RichAction, BadAction, NoAction}}

\* messages with and without a token address, with and without a first-buy
\* percentage
DispatchMsgs ==
    {[text |-> t, age |-> 2,
      parsed |-> [NoFields EXCEPT !.first_buy_pct = fb]] :
        t \in {<<"X">>, <<"a">>}, fb \in {None, <<3>>}}

\* the sends that may raise: each send of the first strategy, and the
\* notification of the second
Failures ==
    SUBSET {<<1, "notify">>, <<1, "mirror">>, <<1, "action">>, <<2, "notify">>}

InitDispatch ==
    /\ now = 0
    /\ PROCESSING_PAUSED = FALSE
    /\ _processed_cache = <<>>
    /\ PASS_CTX = <<>>
    /\ CONV_STATE = [c \in Users |-> None]
    /\ BOT_CONTROL_CHAT_ID \in {None, <<ControlChat>>}
    /\ run = NoRun
    /\ seenAt = <<>>
    /\ bot = NoBotEvent
    /\ prompted = AnyPrompt
    /\ ALLOWED_USER_IDS = {}
    /\ pending = [c \in Users |-> None]
    /\ selected = <<>>
    /\ strategies \in DispatchDocs
    /\ bot_client \in BOOLEAN
    /\ probe = NoProbe

NextDispatch ==
    \E src \in Sources, m \in DispatchMsgs,
       cidOf \in [1..Len(strategies) -> Cids], failing \in Failures :
        handler(src, m, cidOf, failing)

SpecDispatch == InitDispatch /\ [][NextDispatch]_vars

\* ---- strategies of the order venue: built in the chat, then matched ----

MaxVenueSaves == 2     \* strategies saved in a behaviour of SpecVenue
VenueText == Text("30m", << <<30>> >>, FALSE, << <<30, "m">> >>)
VenueMsg == [text |-> <<"X">>, age |-> 0, parsed |-> NoFields]

InitVenue ==
    /\ InitCommon
    /\ strategies = <<>>
    /\ bot_client = TRUE
    /\ probe = NoProbe

\* one sender builds venue strategies, setting any of the four order fields,
\* and saves them; messages of the venue arrive in between
NextVenue ==
    \/ new_group(1, TROJAN_GROUP)
    \/ \E k \in NumberPrompts : edit(1, k)
    \/ bot_conversation(1, VenueText)
    \/ save(1) /\ Len(strategies) < MaxVenueSaves
    \/ \E cidOf \in [1..Len(strategies) -> Cids] : handler(VENUE, VenueMsg, cidOf, {})

SpecVenue == InitVenue /\ [][NextVenue]_vars

\* ---- deletion in two steps, the history of the prompts followed ----

InitConfirm ==
    /\ now = 0
    /\ PROCESSING_PAUSED = FALSE
    /\ _processed_cache = <<>>
    /\ PASS_CTX = <<>>
    /\ CONV_STATE = [c \in Users |-> None]
    /\ BOT_CONTROL_CHAT_ID = None
    /\ run = NoRun
    /\ seenAt = <<>>
    /\ bot = NoBotEvent
    /\ prompted = {}
    /\ ALLOWED_USER_IDS = {}
    /\ pending = [c \in Users |-> None]
    /\ selected = <<>>
    /\ strategies = OwnedDoc
    /\ bot_client = TRUE
    /\ probe = NoProbe

\* the buttons of the strategy list, of the detail card and of the prompt
\* (Cancel is 'view:<idx>'), pressed by two senders in any order
ConfirmEvent(u) ==
    \/ strats(u)
    \/ \E i \in Indexes : view(u, i)
    \/ \E i \in Indexes : delete(u, i)
    \/ \E i \in Indexes : confirm_delete(u, i)
    \/ \E i \in Indexes : toggle(u, i)

NextConfirm == \E u \in Users : ConfirmEvent(u)

SpecConfirm == InitConfirm /\ [][NextConfirm]_vars

\* ---- writes of the document that succeed, are refused or are torn ----

InitWrite ==
    /\ InitCommon
    /\ strategies = <<LegacyStrategy>>
    /\ bot_client = TRUE
    /\ probe = NoProbe

\* one sender creates venue strategies and edits the strategy of the
\* document, and each save ends in one of the three outcomes of the write
NextWrite ==
    \/ Tick
    \/ new_group(1, TROJAN_GROUP)
    \/ edit_strategy(1, 1)
    \/ \E outcome \in WriteOutcomes : save_as(1, outcome)
    \/ strats(1)

SpecWrite == InitWrite /\ [][NextWrite]_vars

----------------------------------------------------------------------------
(* Claims about the bot *)

Foreign(s, u) == s.owner_id # None /\ s.owner_id # <<u>>

RemoveAt(items, p) == SubSeq(items, 1, p - 1) \o SubSeq(items, p + 1, Len(items))

\* C9 (as claimed): confirm-delete with an index inside the sender's view
\* removes the entry at the position of the full list that the i-th element
\* of the view occupies and keeps all others in order, also when entries have
\* identical field values; an index outside the view changes nothing.
C9_ConfirmDeleteRemovesIthOfView ==
    [][\A u \in Users, i \in Indexes :
          confirm_delete(u, i) =>
             LET at == {p \in 1..Len(strategies) : ~Foreign(strategies[p], u)}
                 below(p) == Cardinality({q \in at : q <= p})
             IN  IF i <= Cardinality(at)
                 THEN \E p \in at : /\ below(p) = i
                                    /\ strategies' = RemoveAt(strategies, p)
                 ELSE strategies' = strategies]_vars

\* options set in the sense of the claim: a range with both bounds set, a
\* label other than the wildcard
MeaningfullySet(filters) ==
    Cardinality({k \in DOMAIN filters :
                    IF k \in LabelKeys THEN filters[k] \notin {"", ANY}
                    ELSE /\ HasBothKeys(filters[k])
                         /\ filters[k]["from"] # None
                         /\ filters[k]["to"] # None})

\* C10 (as claimed): a save of a draft bound to a group other than the order
\* venue with fewer than 3 meaningfully set filter options is rejected: store
\* and conversation state stay as they are and the builder is shown again.
C10_TooFewFiltersRejected ==
    [][\A u \in Users :
          (/\ save(u)
           /\ CONV_STATE[u] # None
           /\ TruthyStr(DGet(CONV_STATE[u][1].data, "group"))
           /\ DGet(CONV_STATE[u][1].data, "group") # <<TROJAN_GROUP>>
           /\ MeaningfullySet(DGet(CONV_STATE[u][1].data, "filters")) < 3)
          => /\ UNCHANGED <<strategies, CONV_STATE>>
             /\ bot'.reply = "Set at least 3 filter options; builder"]_vars

\* the code's gate: a group is chosen and, unless it is the order venue, at
\* least 3 filter options are counted
PassesGate(d) ==
    /\ TruthyStr(DGet(d, "group"))
    /\ DGet(d, "group") = <<TROJAN_GROUP>> \/ _count_filled_filters(DGet(d, "filters")) >= 3

\* C11: a save of a draft that has a group and passes the gate, when the
\* document is written, removes the sender's conversation state (and no other)
\* and commits the draft: in create mode one strategy is appended last with
\* the draft's group, filters, action and trojan, the draft's name if it has
\* one, enabled = true and owner_id = sender; in edit mode the entry at the
\* edit index of the sender's view has these five fields replaced and nothing
\* else in the document changes.
C11_SaveCommitsDraft ==
    [][\A u \in Users :
          (/\ save(u)
           /\ CONV_STATE[u] # None
           /\ PassesGate(CONV_STATE[u][1].data)
           /\ bot'.reply # "Save failed")
          => LET st == CONV_STATE[u][1]
                 d == st.data
                 named(s) == TruthyStr(DGet(d, "name")) => s.name = DGet(d, "name")
                 fields(s) == /\ s.group = DGet(d, "group") /\ s.filters = DGet(d, "filters")
                              /\ s.action = DGet(d, "action") /\ s.trojan = DGet(d, "trojan")
                              /\ named(s)
                 mine == {p \in 1..Len(strategies) : ~Foreign(strategies[p], u)}
             IN  /\ CONV_STATE' = [CONV_STATE EXCEPT ![u] = None]
                 /\ IF st.mode = "edit"
                    THEN \E p \in mine :
                           /\ Cardinality({q \in mine : q <= p}) = st.edit_index[1]
                           /\ Len(strategies') = Len(strategies)
                           /\ \A q \in 1..Len(strategies) :
                                 q # p => strategies'[q] = strategies[q]
                           /\ fields(strategies'[p])
                           /\ ~TruthyStr(DGet(d, "name")) /\ TruthyStr(strategies[p].name)
                                 => strategies'[p].name = strategies[p].name
                           /\ strategies'[p].id = strategies[p].id
                           /\ strategies'[p].owner_id = strategies[p].owner_id
                           /\ strategies'[p].enabled = strategies[p].enabled
                    ELSE \E s \in {strategies'[Len(strategies')]} :
                           /\ strategies' = Append(strategies, s)
                           /\ fields(s)
                           /\ s.enabled = <<TRUE>>
                           /\ s.owner_id = <<u>>]_vars

\* a named strategy was created after the legacy strategy had been edited
C11_Witness ==
    /\ bot.sender = 1 /\ bot.reply = "Saved, new"
    /\ CONV_STATE[1] = None
    /\ Len(strategies) = 2
    /\ strategies[2].name = <<"abc">> /\ strategies[2].owner_id = <<1>>
    /\ K_LABEL \in DOMAIN strategies[1].filters

\* C12: a cancel event, whatever the mode and step of the sender's
\* conversation, removes the sender's conversation state and leaves the
\* strategy document, the dedup cache, the correlation map, the pause flag and
\* the conversation state of every other chat as they were.
C12_CancelOnlyDropsOwnState ==
    [][\A u \in Users :
          cancel(u) =>
             /\ CONV_STATE'[u] = None
             /\ \A v \in Users \ {u} : CONV_STATE'[v] = CONV_STATE[v]
             /\ UNCHANGED <<strategies, _processed_cache, PASS_CTX,
                            PROCESSING_PAUSED>>]_vars

\* the first sender has cancelled a limit flow while the second sender is in
\* a conversation and a MatchContext is stored
C12_Witness ==
    /\ bot.sender = 1 /\ bot.reply = "Canceled"
    /\ CONV_STATE[1] = None
    /\ CONV_STATE[2] # None /\ CONV_STATE[2][1].mode = "edit"
    /\ PASS_CTX # <<>> /\ _processed_cache # <<>>

\* the text does not pass the validation of the prompt or step it is typed at
FailsValidation(st, text) ==
    LET venue == DGet(st.data, "group") = <<TROJAN_GROUP>>
    IN  \/ \E k \in NumberPrompts : st.step = EditStep(k) /\ ReadNumber(k, text) = None
        \/ \E k \in RangePrompts :
              /\ st.step = EditStep(k)
              /\ IF venue THEN _parse_number(text.words) = None
                 ELSE _parse_range(text.words) = None
        \/ /\ st.mode \in LimitModes
           /\ st.step \in {"amount", "expiry", "slippage", "trigger"}
           /\ ReadNumber(st.step, text) = None

\* C13 (as claimed): text typed at a field prompt of the builder or at a step
\* of a limit flow that fails validation leaves the step and the draft (the
\* collected values) exactly as they were: no key added, changed or removed.
C13_InvalidInputKeepsDraft ==
    [][\A u \in Users, t \in TextInputs \cup LimitTexts :
          (/\ bot_conversation(u, t)
           /\ CONV_STATE[u] # None
           /\ CONV_STATE[u][1].mode \in BuilderModes
           /\ FailsValidation(CONV_STATE[u][1], t))
          => UNCHANGED <<CONV_STATE, strategies>>]_vars

\* the matches of the last message: the evaluated strategies with a true verdict
Matches == {i \in 1..Len(run.evals) : run.evals[i].verdict}

\* the sends of one kind attempted for the strategy at index idx of the document
SendsOf(idx, kind) ==
    {j \in 1..Len(run.sends) : run.sends[j].idx = idx /\ run.sends[j].kind = kind}

\* the destination of the notification of a strategy: the owner if there is
\* one, else the control destination; None if neither is there
OwnerDestination(strat) ==
    IF strat.owner_id # None /\ strat.owner_id[1] # 0 THEN strat.owner_id
    ELSE BOT_CONTROL_CHAT_ID

Dispatched(k) ==
    LET strat == strategies[k]
        target == Get(strat.action, "target")
        template == Get(strat.action, "template")
    IN  /\ (/\ TruthyStr(target) /\ TruthyStr(template)
            /\ ~_safe_format(template[1], <<>>).raised)
              => SendsOf(k, "action") # {}
        /\ (bot_client /\ run.token # None /\ OwnerDestination(strat) # None)
              => SendsOf(k, "notify") # {} /\ SendsOf(k, "mirror") # {}

\* C15: a send that fails is attempted once, and every strategy later in the
\* document that is enabled and bound to the source is still evaluated and,
\* if it matches, dispatched.
C15_FailedSendIsSwallowed ==
    \A j \in 1..Len(run.sends) :
        ~run.sends[j].ok =>
            /\ Cardinality(SendsOf(run.sends[j].idx, run.sends[j].kind)) = 1
            /\ \A k \in (run.sends[j].idx + 1)..Len(strategies) :
                  Eligible(strategies[k], run.src) =>
                      \E i \in 1..Len(run.evals) :
                          /\ run.evals[i].idx = k
                          /\ run.evals[i].verdict => Dispatched(k)

\* notification, mirror and action of the first strategy all failed, and the
\* second strategy was notified and its action sent
C15_Witness ==
    /\ \A kind \in {"notify", "mirror", "action"} :
          \E j \in SendsOf(1, kind) : ~run.sends[j].ok
    /\ \E j \in SendsOf(2, "notify") : run.sends[j].ok
    /\ \E j \in SendsOf(2, "action") : run.sends[j].ok

\* C16: in every action sent, each replacement field whose name has no value
\* in the context (not defined there, or a signal that was not extracted) is
\* rendered as the empty string, and no rendering raises an error that keeps
\* the action from being sent.
C16_UnsetPlaceholderRendersEmpty ==
    /\ \A j \in 1..Len(run.sends) :
          run.sends[j].kind = "action" =>
              LET ps == Pieces(run.sends[j].strat.action.template)
              IN  \A i \in 1..Len(ps) :
                      (ps[i][1] = "field" /\ ps[i][2] \in run.sends[j].unset)
                          => run.sends[j].text[i] = ""
    /\ run.errors = {}

\* C17: for every match of a strategy with a configured action whose template
\* can be rendered, the action is sent once to its target, whether the
\* notification was attempted and delivered, attempted and failed, or skipped
\* for want of a token address, a bot client or a destination.
C17_ActionIndependentOfNotification ==
    \A i \in Matches :
        LET e == run.evals[i]
            target == Get(e.strat.action, "target")
            template == Get(e.strat.action, "template")
        IN  (/\ TruthyStr(target) /\ TruthyStr(template)
             /\ ~_safe_format(template[1], <<>>).raised)
                => /\ Cardinality(SendsOf(e.idx, "action")) = 1
                   /\ \A j \in SendsOf(e.idx, "action") : run.sends[j].to = target

\* a message with a token address while the bot client runs: the first
\* strategy has no destination, so that its notification was skipped, the
\* notification of the second failed, and both actions were sent
C17_Witness ==
    /\ bot_client /\ run.token # None
    /\ SendsOf(1, "notify") = {} /\ SendsOf(1, "action") # {}
    /\ \E j \in SendsOf(2, "notify") : ~run.sends[j].ok
    /\ SendsOf(2, "action") # {}

\* the steps of the limit flow in the order of the claim
LimitOrder == <<"token", "amount", "expiry", "slippage", "trigger">>
StepPos(step) == CHOOSE i \in 1..Len(LimitOrder) : LimitOrder[i] = step
InLimitFlow(c) ==
    c # None /\ c[1].mode \in LimitModes
             /\ c[1].step \in {LimitOrder[i] : i \in 1..Len(LimitOrder)}

\* an event that sends a /limit command: the sender's conversation was at the
\* trigger step of a limit flow holding a token and a validated amount, expiry
\* and slippage; the command carries this token, amount and slippage, the
\* whole minutes of this expiry and a trigger, and the conversation is over
SentAtEndOfFlow ==
    (bot'.sent # None /\ bot' # bot) =>
        LET c == CONV_STATE[bot'.sender]
            cmd == bot'.sent[1]
        IN  /\ InLimitFlow(c) /\ c[1].step = "trigger"
            /\ \A k \in {"token", "amount", "expiry", "slippage"} :
                  DGet(c[1].data, k) # None
            /\ cmd.token = c[1].data.token
            /\ cmd.amount = c[1].data.amount
            /\ cmd.slippage = c[1].data.slippage
            /\ cmd.expiry = <<c[1].data.expiry[1] \div 60>>
            /\ cmd.trigger # None
            /\ CONV_STATE'[bot'.sender] = None

\* an event after which a conversation is at a step of a limit flow either
\* did not touch it, or started the flow (at the token prompt with nothing
\* collected, or at the amount prompt with the token of a MatchContext), or
\* moved it from the step before by storing a value for that step
StepsInOrder ==
    \A u \in Users :
        (InLimitFlow(CONV_STATE'[u]) /\ CONV_STATE'[u] # CONV_STATE[u]) =>
            LET after == CONV_STATE'[u][1]
            IN  \/ after.mode = "limit_ad_hoc" /\ after.step = "token"
                                             /\ after.data = <<>>
                \/ after.mode = "limit" /\ after.step = "amount"
                                      /\ DOMAIN after.data = {"token", "strategy_name"}
                \/ /\ InLimitFlow(CONV_STATE[u])
                   /\ LET before == CONV_STATE[u][1]
                      IN  /\ after.mode = before.mode
                          /\ StepPos(after.step) = StepPos(before.step) + 1
                          /\ DGet(after.data, before.step) # None
                          /\ after.data = Put(before.data, before.step,
                                              after.data[before.step])

C19_ExpiryInSeconds ==
    [][(bot'.sent # None /\ bot' # bot) =>
          LET entered == CONV_STATE[bot'.sender][1].data.expiry
          IN  bot'.sent[1].expiry = entered]_vars

\* a strategy whose four order fields are all set
OrderReady(strat) ==
    \A k \in {"amount", "expiry_minutes", "slippage_pct", "trigger_price"} :
        k \in DOMAIN strat.trojan

\* after a message of the venue, every notification, mirror and action was
\* sent for, and every MatchContext stored for, a strategy with all four
\* order fields, and a strategy lacking one has a false verdict
VenueDispatchNeedsOrder ==
    run.src = VENUE =>
        /\ \A j \in 1..Len(run.sends) : OrderReady(run.sends[j].strat)
        /\ \A c \in run.stored :
              OrderReady(strategies[PASS_CTX[c].strat_index])
        /\ \A i \in 1..Len(run.evals) :
              run.evals[i].verdict = OrderReady(run.evals[i].strat)

\* a save of a draft bound to the venue is never turned down for its filters
VenueSaveSkipsGate ==
    \A u \in Users :
        (/\ save(u)
         /\ CONV_STATE[u] # None
         /\ DGet(CONV_STATE[u][1].data, "group") = <<TROJAN_GROUP>>)
            => /\ bot'.reply \in {"Saved, new", "Updated", "Save failed"}
               /\ CONV_STATE'[u] = None

\* C20: a strategy bound to the order venue is saved whatever filters it has,
\* and a message from the venue produces a MatchContext, a notification or an
\* action for it only if amount, expiry_minutes, slippage_pct and
\* trigger_price are all set.
C20_VenueStrategyNeedsAllOrderFields ==
    [][VenueSaveSkipsGate]_vars /\ []VenueDispatchNeedsOrder

\* two saved venue strategies without filters, the first lacking the trigger
\* price: a message of the venue dispatched the second only
C20_Witness ==
    /\ Len(strategies) = 2
    /\ \A i \in 1..2 : /\ strategies[i].group = <<TROJAN_GROUP>>
                       /\ _count_filled_filters(strategies[i].filters) = 0
    /\ DOMAIN strategies[1].trojan = {"amount", "expiry_minutes", "slippage_pct"}
    /\ OrderReady(strategies[2])
    /\ run.src = VENUE /\ Len(run.evals) = 2
    /\ run.stored # {}
    /\ \A j \in 1..Len(run.sends) : run.sends[j].idx = 2
    /\ run.sends # <<>>

\* C21: the store loses a strategy only in a confirm-delete event of a chat
\* that was shown the delete prompt for the same index before; the delete
\* event and the Cancel button of the prompt leave the store as it is.
C21_RemovedOnlyAfterPrompt ==
    [][/\ \A u \in Users, i \in Indexes :
             (delete(u, i) \/ view(u, i)) => UNCHANGED strategies
       /\ Len(strategies') < Len(strategies) =>
             \E u \in Users, i \in Indexes :
                 confirm_delete(u, i) /\ <<u, i>> \in prompted]_vars

\* C22: a call that reports duplicate leaves the timestamp of the entry it
\* matched as it was, and a call made more than one TTL after the key was
\* recorded is not a duplicate, whatever duplicates arrived in between.
C22_DuplicateKeepsTimestamp ==
    /\ [][run'.dup =>
             /\ run'.key \in DOMAIN _processed_cache
             /\ run'.key \in DOMAIN _processed_cache'
             /\ _processed_cache'[run'.key] = _processed_cache[run'.key]]_vars
    /\ [](run.monitored /\ run.priorAge # None
            /\ run.priorAge[1] > DEDUP_TTL_SECONDS => ~run.dup)

\* a duplicate at the very end of the life of an entry recorded one second
\* after the start: the entry still carries the time of its recording
C22_Witness ==
    /\ run.dup /\ run.priorAge = <<DEDUP_TTL_SECONDS>>
    /\ now = DEDUP_TTL_SECONDS + 1
    /\ _processed_cache[run.key] = 1

\* the age of the entries of a cache at time t
Age(cache, k, t) == t - cache[k]

\* C23: after every call of the duplicate check no entry of the cache is
\* older than the TTL; a call reports duplicate only on an entry that is at
\* most TTL old, and an entry exactly TTL old is reported as duplicate and
\* kept.
C23_NoExpiredEntryAfterCall ==
    [][\A src \in monitored_groups, m \in DedupMsgs,
          cidOf \in [1..Len(strategies) -> Cids] :
          (/\ run'.src = src /\ run'.key = _dedupe_key_for(m.text)
           /\ handler(src, m, cidOf, {})) =>
              LET key == _dedupe_key_for(m.text)
                  known == key \in DOMAIN _processed_cache
              IN  /\ \A k \in DOMAIN _processed_cache' :
                        Age(_processed_cache', k, now) <= DEDUP_TTL_SECONDS
                  /\ run'.dup =>
                        /\ known
                        /\ Age(_processed_cache, key, now) <= DEDUP_TTL_SECONDS
                  /\ (known /\ Age(_processed_cache, key, now) = DEDUP_TTL_SECONDS)
                        => run'.dup /\ key \in DOMAIN _processed_cache']_vars

\* a call one second after the TTL of an entry recorded at the start: the
\* entry of the other key is gone and the key of the call is the only entry
C23_Witness ==
    /\ run.monitored /\ ~run.dup
    /\ now = DEDUP_TTL_SECONDS + 1
    /\ DOMAIN _processed_cache = {run.key}
    /\ \E k \in DOMAIN seenAt : k # run.key /\ seenAt[k] = 0

\* C24: after a save the document is either the complete new list, and the
\* save is answered as done, or the complete previous list, and it is
\* answered as failed; it is never empty, cut short or partly written.
C24_SaveAllIsAtomic ==
    [][/\ bot'.reply = "Save failed" => strategies' = strategies
       /\ strategies' # strategies =>
             /\ bot'.reply \in {"Saved, new", "Updated"}
             /\ Len(strategies') >= Len(strategies)]_vars

\* C25: the strategies of the document have pairwise distinct ids, whatever
\* creations and deletions led to it, two creations within one second of
\* the clock included.
C25_IdsPairwiseDistinct ==
    \A i, j \in 1..Len(strategies) :
        i # j => strategies[i].id # strategies[j].id

RangesOf(filters) == {filters[k] : k \in DOMAIN filters \ {K_LABEL}}

Ordered(r) == r.from # None /\ r.to # None /\ r.from[1] <= r.to[1]

\* C26: every range of a stored strategy that was typed into the builder has
\* from <= to, whatever the order the bounds were typed in, and a text
\* holding a single value gives the range from that value to itself.
C26_CommittedRangesOrdered ==
    /\ [](\A i \in 1..Len(strategies) :
            \A r \in RangesOf(strategies[i].filters) : Ordered(r))
    /\ [][\A t \in RangeTexts, k \in BuilderRangeKeys :
            (/\ CONV_STATE[1] # None
             /\ CONV_STATE[1][1].step = EditStep(k)
             /\ Len(Digits(t.words)) = 1
             /\ bot_conversation(1, t))
            => LET v == Digits(t.words)[1][1]
               IN  CONV_STATE'[1][1].data["filters"][RangeKeyOf(k)] = Rng(v, v)]_vars

\* a stored strategy with a range typed as '3 1' and a range typed as '2'
C26_Witness ==
    \E i \in 1..Len(strategies) :
        /\ Rng(1, 3) \in RangesOf(strategies[i].filters)
        /\ Rng(2, 2) \in RangesOf(strategies[i].filters)

\* a button press or a text of sender u, handled in the chat of u
InteractiveEvent(u) ==
    \/ LimitEvent(u)
    \/ new(u)
    \/ \E i \in Indexes : edit_strategy(u, i)

\* C27: a button press or a text in the chat of one sender leaves the
\* conversation state of every other chat as it was: none is created,
\* changed or removed.
C27_OtherChatsUntouched ==
    [][\A u \in Users :
          InteractiveEvent(u) =>
             \A v \in Users \ {u} : CONV_STATE'[v] = CONV_STATE[v]]_vars

\* the first sender has typed the amount of a limit order while the second
\* sender is editing a strategy
C27_Witness ==
    /\ bot.sender = 1 /\ bot.reply = "prompt"
    /\ CONV_STATE[1] # None
    /\ CONV_STATE[1][1].mode = "limit" /\ CONV_STATE[1][1].step = "expiry"
    /\ CONV_STATE[2] # None /\ CONV_STATE[2][1].mode = "edit"

\* a draft nothing was entered into: no name, group, action or order
\* settings and no filter
DraftIsEmpty(d) ==
    /\ \A k \in {"name", "group", "action", "trojan"} : DGet(d, k) = None
    /\ DGet(d, "filters") = <<>>
    /\ DOMAIN d \subseteq {"filters"}

IsFreshCreate(c) ==
    /\ c # None
    /\ c[1].mode = "create"
    /\ c[1].step \in {"builder", "group"}
    /\ c[1].edit_index = None
    /\ DraftIsEmpty(c[1].data)

\* C28: the 'new' button and the /new command put the chat into a create
\* session with an empty draft whatever state, in whatever mode and step, the
\* chat had before, and a chat never has more than one conversation state.
C28_NewSessionReplacesState ==
    /\ [][\A u \in Users :
             (new(u) \/ bot_new(u)) => IsFreshCreate(CONV_STATE'[u])]_vars
    /\ [](\A u \in Users : Len(CONV_STATE[u]) <= 1)

\* the /new command has been answered with the choice of groups and the
\* chat is in a create session with an empty draft
C28_Witness ==
    /\ bot.sender = 1 /\ bot.reply = "groups"
    /\ IsFreshCreate(CONV_STATE[1])
    /\ CONV_STATE[1][1].step = "group"

GuardedState == <<CONV_STATE, strategies, PROCESSING_PAUSED, BOT_CONTROL_CHAT_ID>>

\* C29 as stated: an event from a chat that is not private, or from a sender
\* the allow-list does not admit, changes no conversation state, strategy,
\* pause flag or control destination and gets no answer of any kind; without
\* an allow-list every sender with an identity is admitted.
C29_RefusedEventIsSilent ==
    /\ [][\A u \in Senders, private \in BOOLEAN :
             (/\ ~private \/ ~_authorized(u)
              /\ \/ on_button(u, private, GateButton(u))
                 \/ on_message(u, private, GateMessage(u)))
             => UNCHANGED GuardedState /\ bot'.reply = ""]_vars
    /\ [](ALLOWED_USER_IDS = {} => \A u \in Users : _authorized(u))

\* C29 amended: such an event changes no conversation state, strategy, pause
\* flag or control destination; a command or a text gets no answer, a button
\* press is answered with the notice 'Not allowed'.  Without an allow-list
\* every sender with an identity is admitted, a sender without one never.
C29_RefusedEventChangesNothing ==
    /\ [][\A u \in Senders, private \in BOOLEAN :
             (~private \/ ~_authorized(u)) =>
                /\ on_button(u, private, GateButton(u))
                      => UNCHANGED GuardedState /\ bot'.reply = "Not allowed"
                /\ on_message(u, private, GateMessage(u))
                      => UNCHANGED GuardedState /\ bot'.reply = ""]_vars
    /\ [](/\ ALLOWED_USER_IDS = {} => \A u \in Users : _authorized(u)
          /\ ~_authorized(NoSender))

\* the press of a sender the allow-list does not admit has been answered
\* while the admitted sender is in a conversation, paused the processing and
\* made its chat the control destination
C29_Witness ==
    /\ ALLOWED_USER_IDS = {1}
    /\ bot.sender = 2 /\ bot.reply = "Not allowed"
    /\ CONV_STATE[1] # None
    /\ PROCESSING_PAUSED
    /\ BOT_CONTROL_CHAT_ID = <<1>>

\* C30: no step removes an entry of the correlation map, so its size never
\* decreases; a follow-up press reads the MatchContext of its id and leaves
\* the map as it was, so the id resolves to the same context again.
C30_ContextsNeverRemoved ==
    [][/\ DOMAIN PASS_CTX \subseteq DOMAIN PASS_CTX'
       /\ Cardinality(DOMAIN PASS_CTX') >= Cardinality(DOMAIN PASS_CTX)
       /\ \A u \in Users, cid \in Cids :
             (cid \in DOMAIN PASS_CTX /\ limit(u, cid)) =>
                /\ PASS_CTX' = PASS_CTX
                /\ CONV_STATE'[u][1].data["token"] = <<PASS_CTX'[cid].token>>]_vars

\* a press has started the limit flow on the token of a stored MatchContext
\* and the context is still in the map, which holds an entry for every id
C30_Witness ==
    /\ bot.sender = 1 /\ bot.reply = "prompt"
    /\ CONV_STATE[1] # None
    /\ CONV_STATE[1][1].mode = "limit" /\ CONV_STATE[1][1].step = "amount"
    /\ DOMAIN PASS_CTX = Cids
    /\ \E cid \in Cids : CONV_STATE[1][1].data["token"] = <<PASS_CTX[cid].token>>

\* the entries of two lists of the same length that differ
Changed(before, after) == {i \in 1..Len(before) : after[i] # before[i]}

\* the step changes the document it finds by one mutation: one entry
\* rewritten, one entry removed or one entry appended
OneMutation(before, after) ==
    \/ after = before
    \/ Len(after) = Len(before) /\ Cardinality(Changed(before, after)) = 1
    \/ \E p \in 1..Len(before) : after = RemoveAt(before, p)
    \/ Len(after) = Len(before) + 1 /\ SubSeq(after, 1, Len(before)) = before

\* C31: every handler that rewrites the document loads it, changes it and
\* saves it within one step, so the document after the step is the document
\* before the step with that one change: whatever the order in which the
\* handlers of the two senders run, no change made by another handler is
\* undone by the save of a list loaded earlier.
C31_NoUpdateLost ==
    [][/\ OneMutation(strategies, strategies')
       /\ \A u \in Users, i \in Indexes :
             (strategies' # strategies /\ bot'.sender = u /\ toggle(u, i)) =>
                \A p \in Changed(strategies, strategies') :
                    strategies'[p] =
                        [strategies[p] EXCEPT !.enabled = strategies'[p].enabled]]_vars

\* both senders have switched off their strategy, the second one last
C31_Witness ==
    /\ bot.sender = 2 /\ bot.reply = "Saved"
    /\ Len(strategies) = 3
    /\ strategies[1].enabled = <<FALSE>>
    /\ strategies[3].enabled = <<FALSE>>

\* C32: a text handler that resumes after its suspension does what handling
\* the text at that moment does: the text goes to the state registered for
\* the chat then, and with none registered nothing is written or shown.
C32_InputGoesToRegisteredState ==
    [][\A u \in Users :
          text_resumed(u) =>
             IF CONV_STATE[u] = None
             THEN UNCHANGED <<CONV_STATE, strategies>> /\ bot'.reply = ""
             ELSE OnText(u, CONV_STATE[u][1], pending[u][1].text, TRUE)]_vars

\* C33: the save of an edit session rewrites the strategy the session was
\* opened on: the entry of the document that the save changes is the
\* strategy that 'edit_strategy' copied into the draft.
C33_EditSavesSelectedStrategy ==
    [][\A u \in Users :
          ( /\ strategies' # strategies
            /\ bot'.sender = u
            /\ CONV_STATE[u] # None
            /\ CONV_STATE[u][1].mode = "edit"
            /\ save(u) ) =>
              \A p \in Changed(strategies, strategies') :
                  <<strategies[p]>> = selected[u].edited]_vars

\* C34: the strategy removed by 'confirm_delete:<idx>' is the one the prompt
\* 'delete:<idx>' of the chat named.
C34_DeletesPromptedStrategy ==
    [][\A u \in Users, i \in Indexes :
          ( /\ strategies' # strategies
            /\ bot'.sender = u
            /\ selected[u].prompt # None
            /\ selected[u].prompt[1] = i
            /\ confirm_delete(u, i) ) =>
              bot'.shown[1].name = selected[u].prompt[2].name]_vars

\* C35: 'save' writes the document only for a state of mode 'create' or
\* 'edit': pressed on a state of a limit flow it leaves the document as it is.
C35_SaveOnlyCommitsBuilderModes ==
    [][\A u \in Users :
          ( /\ CONV_STATE[u] # None
            /\ CONV_STATE[u][1].mode \notin {"create", "edit"}
            /\ bot'.sender = u
            /\ save(u) ) => strategies' = strategies]_vars

\* C36: the save of a create session keeps every strategy of the document
\* as it is and in its place, whether or not the document could be read: the
\* document after the save is the document before it, or that with the new
\* strategy appended.
C36_CreateKeepsExisting ==
    [][\A u \in Users, readable \in BOOLEAN :
          ( /\ CONV_STATE[u] # None
            /\ CONV_STATE[u][1].mode = "create"
            /\ bot'.sender = u
            /\ save_with(u, readable, "written") ) =>
              /\ Len(strategies') >= Len(strategies)
              /\ SubSeq(strategies', 1, Len(strategies)) = strategies]_vars

C38_LimitNeedsRecordedStrategy ==
    [][\A u \in Users :
          ( /\ bot' # bot
            /\ bot'.sender = u
            /\ bot'.sent # None
            /\ CONV_STATE[u] # None
            /\ CONV_STATE[u][1].mode = "limit" ) =>
              LET name == DGet(CONV_STATE[u][1].data, "strategy_name")
              IN  /\ name # None
                  /\ \E i \in 1..Len(strategies) :
                        /\ _belongs_to(strategies[i], <<u>>)
                        /\ strategies[i].name = name]_vars

\* C39: a MatchContext stored for one match is not overwritten by the store
\* for another: the correlation id of every notification delivered for the
\* message resolves to the token and the strategy of its own match.
C39_ButtonResolvesToItsMatch ==
    \A j \in 1..Len(run.sends) :
        (run.sends[j].kind = "notify" /\ run.sends[j].ok) =>
            /\ run.sends[j].cid \in DOMAIN PASS_CTX
            /\ PASS_CTX[run.sends[j].cid].token = run.token[1]
            /\ PASS_CTX[run.sends[j].cid].strat_index = run.sends[j].idx

\* C40: a message whose key was recorded, from whichever monitored source,
\* no longer than the TTL before it arrives is reported duplicate: it is not
\* extracted, no strategy is evaluated for it and nothing is sent.
C40_KeySeenInAnySourceSuppresses ==
    ( /\ run.monitored
      /\ run.priorAge # None
      /\ run.priorAge[1] <= DEDUP_TTL_SECONDS ) =>
        /\ run.dup
        /\ ~run.extracted
        /\ run.evals = <<>>
        /\ run.sends = <<>>

\* a message of the order venue, for which the document holds a complete
\* venue strategy, dropped for an address recorded from the pump group
C40_Witness ==
    /\ run.monitored /\ run.dup
    /\ run.src = "solana_trojanbot"
    /\ run.key[1] = "token"
    /\ SourceAt(seenAt[run.key]) = "SolanaNewPumpfun"
    /\ \E i \in 1..Len(strategies) :
          IsEnabled(strategies[i]) /\ strategies[i].group = <<TROJAN_GROUP>>

====
